---- MODULE Spec2Model ----
(***************************************************************************)
(* Model of the PII detection and transformation engine of src/app.js      *)
(* (class PIITool): the category registry, the detector (single pass and   *)
(* chunked), the deduplicator, the transformer and the event handlers      *)
(* that drive them.                                                        *)
(*                                                                         *)
(* A text is a sequence of one-character strings (1-based); a match index  *)
(* is 0-based as in the source, so the match covers text[index+1 ..        *)
(* index+Len(text)].                                                       *)
(***************************************************************************)
EXTENDS Integers, Sequences, FiniteSets, TLC

(***************************************************************************)
(* Characters and the character classes the patterns use.                  *)
(***************************************************************************)
Digit == {"0","1","2","3","4","5","6","7","8","9"}
Upper == {"A","B","C","D","E","F","G","H","I","J","K","L","M",
          "N","O","P","Q","R","S","T","U","V","W","X","Y","Z"}
Lower == {"a","b","c","d","e","f","g","h","i","j","k","l","m",
          "n","o","p","q","r","s","t","u","v","w","x","y","z"}
Alpha == Upper \cup Lower
\* \w
WordChar == Alpha \cup Digit \cup {"_"}
\* \s (the ASCII members)
WhiteSpace == {" ", "\t", "\n", "\r", "\f"}
HexDigit == Digit \cup {"A","B","C","D","E","F","a","b","c","d","e","f"}

UpperSeq == <<"A","B","C","D","E","F","G","H","I","J","K","L","M",
              "N","O","P","Q","R","S","T","U","V","W","X","Y","Z">>
LowerSeq == <<"a","b","c","d","e","f","g","h","i","j","k","l","m",
              "n","o","p","q","r","s","t","u","v","w","x","y","z">>

\* String.prototype.toLowerCase / toUpperCase on one ASCII character
toLowerCase1(c) ==
    IF c \in Upper THEN LowerSeq[CHOOSE k \in 1..26 : UpperSeq[k] = c] ELSE c
toUpperCase1(c) ==
    IF c \in Lower THEN UpperSeq[CHOOSE k \in 1..26 : LowerSeq[k] = c] ELSE c
toLowerCase(s) == [k \in 1..Len(s) |-> toLowerCase1(s[k])]

(***************************************************************************)
(* String helpers with JavaScript's 0-based, clamped semantics.            *)
(***************************************************************************)
Min(a, b) == IF a < b THEN a ELSE b
Max(a, b) == IF a > b THEN a ELSE b
Clamp(n, len) == Max(0, Min(n, len))

\* F(value), with value computed once, before F is applied
withValue(value, F(_)) == CHOOSE out \in {F(v) : v \in {value}} : TRUE

\* s.slice(from, to) for 0 <= from, to (no negative arguments are used)
slice(s, from, to) == SubSeq(s, Clamp(from, Len(s)) + 1, Clamp(to, Len(s)))
\* s.substring(a, b): clamps, and swaps its arguments when a > b
substring(s, a, b) ==
    LET x == Clamp(a, Len(s))
        y == Clamp(b, Len(s))
    IN SubSeq(s, Min(x, y) + 1, Max(x, y))
endsWith(s, suffix) ==
    /\ Len(suffix) <= Len(s)
    /\ SubSeq(s, Len(s) - Len(suffix) + 1, Len(s)) = suffix
startsWith(s, prefix) ==
    /\ Len(prefix) <= Len(s)
    /\ SubSeq(s, 1, Len(prefix)) = prefix
\* a repeat that is one character too long
repeatOneMore(c, n) == [k \in 1..(n + 1) |-> c]

\* '*'.repeat(n)
repeat(c, n) == [k \in 1..n |-> c]

\* String.prototype.trimStart and trimEnd
RECURSIVE trimStart(_)
trimStart(s) == IF s # <<>> /\ Head(s) \in WhiteSpace THEN trimStart(Tail(s)) ELSE s
RECURSIVE trimEnd(_)
trimEnd(s) ==
    IF s # <<>> /\ s[Len(s)] \in WhiteSpace THEN trimEnd(SubSeq(s, 1, Len(s) - 1)) ELSE s

\* String.prototype.trim
trim(s) == trimEnd(trimStart(s))

(***************************************************************************)
(* Regular expressions.  A pattern is a tree of the nodes below; Ends gives *)
(* the positions at which a match starting at position i can end, in the    *)
(* order a backtracking matcher tries them, so its head is the match that   *)
(* RegExp.prototype.exec reports.                                           *)
(***************************************************************************)
Unbounded == -1
Cls(S) == [k |-> "cls", s |-> S]
Cat(rs) == [k |-> "cat", rs |-> rs]
Alt(rs) == [k |-> "alt", rs |-> rs]
Rep(r, lo, hi) == [k |-> "rep", r |-> r, lo |-> lo, hi |-> hi, lazy |-> FALSE]
LazyRep(r, lo, hi) == [k |-> "rep", r |-> r, lo |-> lo, hi |-> hi, lazy |-> TRUE]
Opt(r) == Rep(r, 0, 1)
Plus(r) == Rep(r, 1, Unbounded)
Star(r) == Rep(r, 0, Unbounded)
WordB == [k |-> "wb"]
NotAhead(r) == [k |-> "nla", r |-> r]
Lit(str) == Cat([j \in 1..Len(str) |-> Cls({str[j]})])

\* \b: exactly one side of position i is a word character
IsWordBoundary(t, i) ==
    LET before == i > 1 /\ t[i - 1] \in WordChar
        after == i <= Len(t) /\ t[i] \in WordChar
    IN before # after

\* the class test, under the i flag when ci
ClsMatches(c, S, ci) ==
    \/ c \in S
    \/ ci /\ (toLowerCase1(c) \in S \/ toUpperCase1(c) \in S)

\* xs followed by the elements of ys not already present
AppendNew(xs, ys) ==
    LET fresh == {j \in 1..Len(ys) :
                     /\ \A k \in 1..Len(xs) : xs[k] # ys[j]
                     /\ \A k \in 1..(j - 1) : ys[k] # ys[j]}
    IN xs \o [n \in 1..Cardinality(fresh) |->
                 ys[CHOOSE j \in fresh : Cardinality({k \in fresh : k <= j}) = n]]

\* the elements of the sequences of seqs, one sequence after the other, each
\* element at its first place; no sequence of seqs holds an element twice
Merge(seqs) ==
    IF Len(seqs) = 0 THEN <<>>
    ELSE IF Len(seqs) = 1 THEN seqs[1]
    ELSE LET places == UNION {{<<j, k>> : k \in 1..Len(seqs[j])} : j \in 1..Len(seqs)}
             before(p, q) == p[1] < q[1] \/ (p[1] = q[1] /\ p[2] < q[2])
             first == {p \in places :
                         \A q \in places :
                            before(q, p) => seqs[q[1]][q[2]] # seqs[p[1]][p[2]]}
             place(n) == CHOOSE p \in first : Cardinality({q \in first : before(q, p)}) = n - 1
         IN <<>> \o [n \in 1..Cardinality(first) |-> seqs[place(n)[1]][place(n)[2]]]

RECURSIVE Ends(_, _, _, _)
RECURSIVE CatEnds(_, _, _, _, _)
RECURSIVE RepEnds(_, _, _, _, _)
RECURSIVE IterEnds(_, _, _, _, _)

\* the ends of r from each start position of ps, in order
EndsFrom(r, t, ps, ci) ==
    Merge(<<>> \o [j \in 1..Len(ps) |-> Ends(r, t, ps[j], ci)])

CatEnds(rs, j, t, ps, ci) ==
    IF j > Len(rs) \/ ps = <<>> THEN ps
    ELSE CatEnds(rs, j + 1, t, EndsFrom(rs[j], t, ps, ci), ci)

\* the ends of the alternatives rs from position i, first alternative first
AltEnds(rs, t, i, ci) ==
    Merge(<<>> \o [j \in 1..Len(rs) |-> Ends(rs[j], t, i, ci)])

\* a repetition of one character class from position i: the run of
\* characters of the class, longest first unless lazy
ClsRepEnds(rep, t, i, ci) ==
    LET limit == IF rep.hi = Unbounded THEN Len(t) - i + 1
                 ELSE Min(rep.hi, Len(t) - i + 1)
        run == Cardinality({k \in 1..limit :
                               \A q \in 0..(k - 1) : ClsMatches(t[i + q], rep.r.s, ci)})
        count == Max(0, run - rep.lo + 1)
    IN IF rep.lazy THEN [n \in 1..count |-> i + rep.lo + n - 1]
       ELSE [n \in 1..count |-> i + run - n + 1]

\* the ends of m iterations of rep.r from each position of ps, in order; the
\* iterations are halved, so that the evaluation nests log m deep
IterEnds(rep, m, t, ps, ci) ==
    IF m = 0 \/ ps = <<>> THEN ps
    ELSE IF m = 1
         THEN Merge(<<>> \o [j \in 1..Len(ps) |->
                                SelectSeq(Ends(rep.r, t, ps[j], ci), LAMBDA e : e > ps[j])])
         ELSE IterEnds(rep, m - (m \div 2), t, IterEnds(rep, m \div 2, t, ps, ci), ci)

\* n iterations of rep.r done, n >= rep.lo, standing at position i
RepEnds(rep, n, t, i, ci) ==
    LET step == IF rep.hi # Unbounded /\ n >= rep.hi THEN <<>>
                ELSE SelectSeq(Ends(rep.r, t, i, ci), LAMBDA e : e > i)
        more == Merge(<<>> \o [k \in 1..Len(step) |-> RepEnds(rep, n + 1, t, step[k], ci)])
    IN IF rep.lazy THEN AppendNew(<<i>>, more) ELSE AppendNew(more, <<i>>)

\* the optional iterations of rep from each position of ps, after the rep.lo
\* iterations that must be made
RepFrom(rep, t, ps, ci) ==
    Merge(<<>> \o [j \in 1..Len(ps) |-> RepEnds(rep, rep.lo, t, ps[j], ci)])

Ends(r, t, i, ci) ==
    CASE r.k = "cls" -> IF i <= Len(t) /\ ClsMatches(t[i], r.s, ci) THEN <<i + 1>> ELSE <<>>
      [] r.k = "wb"  -> IF IsWordBoundary(t, i) THEN <<i>> ELSE <<>>
      [] r.k = "nla" -> IF Ends(r.r, t, i, ci) = <<>> THEN <<i>> ELSE <<>>
      [] r.k = "cat" -> CatEnds(r.rs, 1, t, <<i>>, ci)
      [] r.k = "alt" -> AltEnds(r.rs, t, i, ci)
      [] r.k = "rep" -> IF r.r.k = "cls" THEN <<>> \o ClsRepEnds(r, t, i, ci)
                        ELSE RepFrom(r, t, IterEnds(r, r.lo, t, <<i>>, ci), ci)

(***************************************************************************)
(* The category registry: this.piiPatterns of the constructor, in          *)
(* declaration order.  The display fields name and color are left out.     *)
(* Every pattern carries the g flag.                                       *)
(***************************************************************************)
\* /\b[A-Za-z0-9._%+-]+@[A-Za-z0-9.-]+\.[A-Z|a-z]{2,}\b/g
pattern_email == Cat(<<WordB,
    Plus(Cls(Upper \cup Lower \cup Digit \cup {".","_","%","+","-"})),
    Cls({"@"}), Plus(Cls(Upper \cup Lower \cup Digit \cup {".","-"})),
    Cls({"."}), Rep(Cls(Upper \cup Lower \cup {"|"}), 2, Unbounded), WordB>>)

\* the ssn pattern without its first lookahead
pattern_ssnAnyArea == Cat(<<WordB,
    Rep(Cls(Digit), 3, 3), Opt(Cls(WhiteSpace \cup {"-","."})),
    NotAhead(Lit(<<"0","0">>)), Rep(Cls(Digit), 2, 2),
    Opt(Cls(WhiteSpace \cup {"-","."})), NotAhead(Lit(<<"0","0","0","0">>)),
    Rep(Cls(Digit), 4, 4), WordB>>)

\* /\b(?!000|666|9\d\d)\d{3}[-\s.]?(?!00)\d{2}[-\s.]?(?!0000)\d{4}\b/g
pattern_ssn == Cat(<<WordB, NotAhead(Alt(<<Lit(<<"0","0","0">>),
    Lit(<<"6","6","6">>), Cat(<<Cls({"9"}), Cls(Digit), Cls(Digit)>>)>>)),
    Rep(Cls(Digit), 3, 3), Opt(Cls(WhiteSpace \cup {"-","."})),
    NotAhead(Lit(<<"0","0">>)), Rep(Cls(Digit), 2, 2),
    Opt(Cls(WhiteSpace \cup {"-","."})), NotAhead(Lit(<<"0","0","0","0">>)),
    Rep(Cls(Digit), 4, 4), WordB>>)

\* /\b(?:\+1[-.\s]?)?(?:\(?\d{3}\)?[-.\s]?)\d{3}[-.\s]?\d{4}\b/g
pattern_phone == Cat(<<WordB, Opt(Cat(<<Lit(<<"+","1">>),
    Opt(Cls(WhiteSpace \cup {"-","."}))>>)), Opt(Cls({"("})),
    Rep(Cls(Digit), 3, 3), Opt(Cls({")"})),
    Opt(Cls(WhiteSpace \cup {"-","."})), Rep(Cls(Digit), 3, 3),
    Opt(Cls(WhiteSpace \cup {"-","."})), Rep(Cls(Digit), 4, 4), WordB>>)

\* /\b(?:\d[ -]*?){13,19}\b/g
pattern_creditCard == Cat(<<WordB, Rep(Cat(<<Cls(Digit),
    LazyRep(Cls({" ","-"}), 0, Unbounded)>>), 13, 19), WordB>>)

\* /https?:\/\/(?:[-\w.])+(?:[:\d]+)?(?:\/(?:[\w\/_.])*(?:\?(?:[\w&=%.])*)?(?:#(?:\w*))?)?/g
pattern_url == Cat(<<Lit(<<"h","t","t","p">>), Opt(Cls({"s"})),
    Lit(<<":","/","/">>), Plus(Cls(WordChar \cup {"-","."})),
    Opt(Plus(Cls(Digit \cup {":"}))), Opt(Cat(<<Cls({"/"}),
    Star(Cls(WordChar \cup {"/","_","."})), Opt(Cat(<<Cls({"?"}),
    Star(Cls(WordChar \cup {"&","=","%","."}))>>)), Opt(Cat(<<Cls({"#"}),
    Star(Cls(WordChar))>>))>>))>>)

\* /\b(?:(?:25[0-5]|2[0-4]\d|1?\d?\d)\.){3}(?:25[0-5]|2[0-4]\d|1?\d?\d)\b/g
pattern_ipv4Address == Cat(<<WordB, Rep(Cat(<<Alt(<<Cat(<<Lit(<<"2","5">>),
    Cls({"0","1","2","3","4","5"})>>), Cat(<<Cls({"2"}),
    Cls({"0","1","2","3","4"}), Cls(Digit)>>), Cat(<<Opt(Cls({"1"})),
    Opt(Cls(Digit)), Cls(Digit)>>)>>), Cls({"."})>>), 3, 3),
    Alt(<<Cat(<<Lit(<<"2","5">>), Cls({"0","1","2","3","4","5"})>>),
    Cat(<<Cls({"2"}), Cls({"0","1","2","3","4"}), Cls(Digit)>>),
    Cat(<<Opt(Cls({"1"})), Opt(Cls(Digit)), Cls(Digit)>>)>>), WordB>>)

\* /\b(?:[A-Fa-f0-9]{1,4}:){7}[A-Fa-f0-9]{1,4}\b/g
pattern_ipv6Address == Cat(<<WordB,
    Rep(Cat(<<Rep(Cls(Digit \cup {"A","B","C","D","E","F","a","b","c","d","e","f"}), 1, 4)
    , Cls({":"})>>), 7, 7),
    Rep(Cls(Digit \cup {"A","B","C","D","E","F","a","b","c","d","e","f"}), 1, 4)
    , WordB>>)

\* /\b\d{2}-\d{7}\b/g
pattern_taxId == Cat(<<WordB, Rep(Cls(Digit), 2, 2), Cls({"-"}),
    Rep(Cls(Digit), 7, 7), WordB>>)

\* /\b(?:EMP|STU|PAT|CS|GOV)-\d{4}-\d{3,5}\b/g
pattern_employeeId == Cat(<<WordB, Alt(<<Lit(<<"E","M","P">>),
    Lit(<<"S","T","U">>), Lit(<<"P","A","T">>), Lit(<<"C","S">>),
    Lit(<<"G","O","V">>)>>), Cls({"-"}), Rep(Cls(Digit), 4, 4), Cls({"-"}),
    Rep(Cls(Digit), 3, 5), WordB>>)

\* /\b[A-Z]{2,4}-\d{5,10}\b/g
pattern_alphanumericId == Cat(<<WordB, Rep(Cls(Upper), 2, 4), Cls({"-"}),
    Rep(Cls(Digit), 5, 10), WordB>>)

\* /\b[A-Z0-9]{8,16}\b/g
pattern_accountNumber == Cat(<<WordB, Rep(Cls(Upper \cup Digit), 8, 16),
    WordB>>)

\* /\b\d{9}\b/g
pattern_routingNumber == Cat(<<WordB, Rep(Cls(Digit), 9, 9), WordB>>)

\* /\b(?:Dr\.?\s+|Mr\.?\s+|Mrs\.?\s+|Ms\.?\s+|Prof\.?\s+)[A-Z][a-z]{2,}(?:\s+[A-Z][a-z]{2,})+(?:\s+[A-Z][a-z]{2,})*(?:\s+(?:Jr\.?|Sr\.?|III?|IV))?\b/g
pattern_name == Cat(<<WordB, Alt(<<Cat(<<Lit(<<"D","r">>), Opt(Cls({"."})),
    Plus(Cls(WhiteSpace))>>), Cat(<<Lit(<<"M","r">>), Opt(Cls({"."})),
    Plus(Cls(WhiteSpace))>>), Cat(<<Lit(<<"M","r","s">>), Opt(Cls({"."})),
    Plus(Cls(WhiteSpace))>>), Cat(<<Lit(<<"M","s">>), Opt(Cls({"."})),
    Plus(Cls(WhiteSpace))>>), Cat(<<Lit(<<"P","r","o","f">>), Opt(Cls({"."}))
    , Plus(Cls(WhiteSpace))>>)>>), Cls(Upper), Rep(Cls(Lower), 2, Unbounded),
    Plus(Cat(<<Plus(Cls(WhiteSpace)), Cls(Upper), Rep(Cls(Lower), 2,
    Unbounded)>>)), Star(Cat(<<Plus(Cls(WhiteSpace)), Cls(Upper),
    Rep(Cls(Lower), 2, Unbounded)>>)), Opt(Cat(<<Plus(Cls(WhiteSpace)),
    Alt(<<Cat(<<Lit(<<"J","r">>), Opt(Cls({"."}))>>), Cat(<<Lit(<<"S","r">>),
    Opt(Cls({"."}))>>), Cat(<<Lit(<<"I","I">>), Opt(Cls({"I"}))>>),
    Lit(<<"I","V">>)>>)>>)), WordB>>)

\* /\b[A-Z][a-z]{2,15}\b/g
pattern_firstName == Cat(<<WordB, Cls(Upper), Rep(Cls(Lower), 2, 15), WordB>>)

\* /\b[A-Z][a-z]+(?:\s+[A-Z][a-z]+)*\s+(?:LLC|Inc|Corp|Corporation|Company|Co|Ltd|Limited|University|Institute|College|Hospital|Medical|Center|Health|Bank|Insurance|Group|Board|Technology|Academy|School)\b/g
pattern_companyName == Cat(<<WordB, Cls(Upper), Plus(Cls(Lower)),
    Star(Cat(<<Plus(Cls(WhiteSpace)), Cls(Upper), Plus(Cls(Lower))>>)),
    Plus(Cls(WhiteSpace)), Alt(<<Lit(<<"L","L","C">>), Lit(<<"I","n","c">>),
    Lit(<<"C","o","r","p">>),
    Lit(<<"C","o","r","p","o","r","a","t","i","o","n">>),
    Lit(<<"C","o","m","p","a","n","y">>), Lit(<<"C","o">>),
    Lit(<<"L","t","d">>), Lit(<<"L","i","m","i","t","e","d">>),
    Lit(<<"U","n","i","v","e","r","s","i","t","y">>),
    Lit(<<"I","n","s","t","i","t","u","t","e">>),
    Lit(<<"C","o","l","l","e","g","e">>),
    Lit(<<"H","o","s","p","i","t","a","l">>),
    Lit(<<"M","e","d","i","c","a","l">>), Lit(<<"C","e","n","t","e","r">>),
    Lit(<<"H","e","a","l","t","h">>), Lit(<<"B","a","n","k">>),
    Lit(<<"I","n","s","u","r","a","n","c","e">>), Lit(<<"G","r","o","u","p">>)
    , Lit(<<"B","o","a","r","d">>),
    Lit(<<"T","e","c","h","n","o","l","o","g","y">>),
    Lit(<<"A","c","a","d","e","m","y">>), Lit(<<"S","c","h","o","o","l">>)>>)
    , WordB>>)

\* /\b\d+\s+[A-Za-z0-9\s,]+(?:Street|St|Avenue|Ave|Road|Rd|Boulevard|Blvd|Drive|Dr|Lane|Ln|Way|Circle|Cir|Plaza|Court|Ct|Highway|Hwy)\b/g
pattern_address == Cat(<<WordB, Plus(Cls(Digit)), Plus(Cls(WhiteSpace)),
    Plus(Cls(Upper \cup Lower \cup Digit \cup WhiteSpace \cup {","})),
    Alt(<<Lit(<<"S","t","r","e","e","t">>), Lit(<<"S","t">>),
    Lit(<<"A","v","e","n","u","e">>), Lit(<<"A","v","e">>),
    Lit(<<"R","o","a","d">>), Lit(<<"R","d">>),
    Lit(<<"B","o","u","l","e","v","a","r","d">>), Lit(<<"B","l","v","d">>),
    Lit(<<"D","r","i","v","e">>), Lit(<<"D","r">>), Lit(<<"L","a","n","e">>),
    Lit(<<"L","n">>), Lit(<<"W","a","y">>), Lit(<<"C","i","r","c","l","e">>),
    Lit(<<"C","i","r">>), Lit(<<"P","l","a","z","a">>),
    Lit(<<"C","o","u","r","t">>), Lit(<<"C","t">>),
    Lit(<<"H","i","g","h","w","a","y">>), Lit(<<"H","w","y">>)>>), WordB>>)

\* /\b(?:\d{1,2}[\/\-]\d{1,2}[\/\-]\d{2,4}|\d{4}[\/\-]\d{1,2}[\/\-]\d{1,2}|(?:Jan|Feb|Mar|Apr|May|Jun|Jul|Aug|Sep|Oct|Nov|Dec)[a-z]*\s+\d{1,2},?\s+\d{4})\b/gi
pattern_date == Cat(<<WordB, Alt(<<Cat(<<Rep(Cls(Digit), 1, 2), Cls({"/","-"})
    , Rep(Cls(Digit), 1, 2), Cls({"/","-"}), Rep(Cls(Digit), 2, 4)>>),
    Cat(<<Rep(Cls(Digit), 4, 4), Cls({"/","-"}), Rep(Cls(Digit), 1, 2),
    Cls({"/","-"}), Rep(Cls(Digit), 1, 2)>>), Cat(<<Alt(<<Lit(<<"J","a","n">>)
    , Lit(<<"F","e","b">>), Lit(<<"M","a","r">>), Lit(<<"A","p","r">>),
    Lit(<<"M","a","y">>), Lit(<<"J","u","n">>), Lit(<<"J","u","l">>),
    Lit(<<"A","u","g">>), Lit(<<"S","e","p">>), Lit(<<"O","c","t">>),
    Lit(<<"N","o","v">>), Lit(<<"D","e","c">>)>>), Star(Cls(Lower)),
    Plus(Cls(WhiteSpace)), Rep(Cls(Digit), 1, 2), Opt(Cls({","})),
    Plus(Cls(WhiteSpace)), Rep(Cls(Digit), 4, 4)>>)>>), WordB>>)

\* /\b\d{5}(?:-\d{4})?\b/g
pattern_zipCode == Cat(<<WordB, Rep(Cls(Digit), 5, 5), Opt(Cat(<<Cls({"-"}),
    Rep(Cls(Digit), 4, 4)>>)), WordB>>)

\* /\bextension\s+\d{3,4}\b/gi
pattern_extension == Cat(<<WordB, Lit(<<"e","x","t","e","n","s","i","o","n">>)
    , Plus(Cls(WhiteSpace)), Rep(Cls(Digit), 3, 4), WordB>>)

\* /\b[A-Z][a-z]{4,},\s*[A-Z][a-z]{4,},\s*USA\b/g
pattern_cityState == Cat(<<WordB, Cls(Upper), Rep(Cls(Lower), 4, Unbounded),
    Cls({","}), Star(Cls(WhiteSpace)), Cls(Upper), Rep(Cls(Lower), 4,
    Unbounded), Cls({","}), Star(Cls(WhiteSpace)), Lit(<<"U","S","A">>),
    WordB>>)

\* /\b[A-Z]{2,3}\d{8,9}\b/g
pattern_passport == Cat(<<WordB, Rep(Cls(Upper), 2, 3), Rep(Cls(Digit), 8, 9)
    , WordB>>)

\* /\b[0-9A-Fa-f]{2}:[0-9A-Fa-f]{2}:[0-9A-Fa-f]{2}:[0-9A-Fa-f]{2}:[0-9A-Fa-f]{2}:[0-9A-Fa-f]{2}\b/g
pattern_macAddress == Cat(<<WordB,
    Rep(Cls(Digit \cup {"A","B","C","D","E","F","a","b","c","d","e","f"}), 2, 2)
    , Cls({":"}),
    Rep(Cls(Digit \cup {"A","B","C","D","E","F","a","b","c","d","e","f"}), 2, 2)
    , Cls({":"}),
    Rep(Cls(Digit \cup {"A","B","C","D","E","F","a","b","c","d","e","f"}), 2, 2)
    , Cls({":"}),
    Rep(Cls(Digit \cup {"A","B","C","D","E","F","a","b","c","d","e","f"}), 2, 2)
    , Cls({":"}),
    Rep(Cls(Digit \cup {"A","B","C","D","E","F","a","b","c","d","e","f"}), 2, 2)
    , Cls({":"}),
    Rep(Cls(Digit \cup {"A","B","C","D","E","F","a","b","c","d","e","f"}), 2, 2)
    , WordB>>)

\* /\b[a-z][a-z0-9_\.]{6,25}(?:\.[a-z]{2,15})?\b/g
pattern_username == Cat(<<WordB, Cls(Lower),
    Rep(Cls(Lower \cup Digit \cup {"_","."}), 6, 25), Opt(Cat(<<Cls({"."}),
    Rep(Cls(Lower), 2, 15)>>)), WordB>>)

\* /\b[A-Z]{2}-[A-Z]{2}-\d{6,12}\b/g
pattern_medicalLicense == Cat(<<WordB, Rep(Cls(Upper), 2, 2), Cls({"-"}),
    Rep(Cls(Upper), 2, 2), Cls({"-"}), Rep(Cls(Digit), 6, 12), WordB>>)

\* /\b[A-Z]{2}\d{7}\b/g
pattern_deaNumber == Cat(<<WordB, Rep(Cls(Upper), 2, 2), Rep(Cls(Digit), 7, 7)
    , WordB>>)

\* /\b[A-Z]{3}-[A-Z0-9]{3,12}[A-Z0-9]{3,12}\b/g
pattern_deviceId == Cat(<<WordB, Rep(Cls(Upper), 3, 3), Cls({"-"}),
    Rep(Cls(Upper \cup Digit), 3, 12), Rep(Cls(Upper \cup Digit), 3, 12),
    WordB>>)

\* /\b[A-Z]{2}-\d{12,18}\b/g
pattern_fingerprint == Cat(<<WordB, Rep(Cls(Upper), 2, 2), Cls({"-"}),
    Rep(Cls(Digit), 12, 18), WordB>>)

\* /\b[A-Z]{2}-[A-Z]{2,3}-[A-Z0-9]{6,12}\b/g
pattern_licenseNumber == Cat(<<WordB, Rep(Cls(Upper), 2, 2), Cls({"-"}),
    Rep(Cls(Upper), 2, 3), Cls({"-"}), Rep(Cls(Upper \cup Digit), 6, 12),
    WordB>>)

\* /\b(?:Apt|Suite|Unit|Apartment|Room)\s+[A-Z0-9]{1,5}\b/gi
pattern_apartment == Cat(<<WordB, Alt(<<Lit(<<"A","p","t">>),
    Lit(<<"S","u","i","t","e">>), Lit(<<"U","n","i","t">>),
    Lit(<<"A","p","a","r","t","m","e","n","t">>), Lit(<<"R","o","o","m">>)>>)
    , Plus(Cls(WhiteSpace)), Rep(Cls(Upper \cup Digit), 1, 5), WordB>>)

\* /\b1Z[A-Z0-9]{16}\b|\b[A-Z0-9]{10,30}\b/g
pattern_trackingNumber == Alt(<<
    Cat(<<WordB, Lit(<<"1","Z">>), Rep(Cls(Upper \cup Digit), 16, 16), WordB>>),
    Cat(<<WordB, Rep(Cls(Upper \cup Digit), 10, 30), WordB>>)>>)

\* /\b(?:ORD|SHOP|CUST|RET|SHIP|TXN|WH)[-_][A-Z0-9]{4,20}\b/g
pattern_orderID == Cat(<<WordB, Alt(<<Lit(<<"O","R","D">>),
    Lit(<<"S","H","O","P">>), Lit(<<"C","U","S","T">>), Lit(<<"R","E","T">>),
    Lit(<<"S","H","I","P">>), Lit(<<"T","X","N">>), Lit(<<"W","H">>)>>),
    Cls({"-","_"}), Rep(Cls(Upper \cup Digit), 4, 20), WordB>>)

\* /\bPO\s+Box\s+\d{3,6}\b/gi
pattern_poBox == Cat(<<WordB, Lit(<<"P","O">>), Plus(Cls(WhiteSpace)),
    Lit(<<"B","o","x">>), Plus(Cls(WhiteSpace)), Rep(Cls(Digit), 3, 6),
    WordB>>)

\* this.piiPatterns, as Object.entries lists it
piiPatterns == <<
    [key |-> "email", pattern |-> pattern_email, ignoreCase |-> FALSE, priority |-> 1,
     requiresLuhn |-> FALSE, contextAware |-> FALSE],
    [key |-> "ssn", pattern |-> pattern_ssn, ignoreCase |-> FALSE, priority |-> 2,
     requiresLuhn |-> FALSE, contextAware |-> FALSE],
    [key |-> "phone", pattern |-> pattern_phone, ignoreCase |-> FALSE, priority |-> 3,
     requiresLuhn |-> FALSE, contextAware |-> FALSE],
    [key |-> "creditCard", pattern |-> pattern_creditCard, ignoreCase |-> FALSE, priority |-> 4,
     requiresLuhn |-> TRUE, contextAware |-> FALSE],
    [key |-> "url", pattern |-> pattern_url, ignoreCase |-> FALSE, priority |-> 5,
     requiresLuhn |-> FALSE, contextAware |-> FALSE],
    [key |-> "ipv4Address", pattern |-> pattern_ipv4Address, ignoreCase |-> FALSE, priority |-> 6,
     requiresLuhn |-> FALSE, contextAware |-> FALSE],
    [key |-> "ipv6Address", pattern |-> pattern_ipv6Address, ignoreCase |-> FALSE, priority |-> 7,
     requiresLuhn |-> FALSE, contextAware |-> FALSE],
    [key |-> "taxId", pattern |-> pattern_taxId, ignoreCase |-> FALSE, priority |-> 8,
     requiresLuhn |-> FALSE, contextAware |-> FALSE],
    [key |-> "employeeId", pattern |-> pattern_employeeId, ignoreCase |-> FALSE, priority |-> 9,
     requiresLuhn |-> FALSE, contextAware |-> FALSE],
    [key |-> "alphanumericId", pattern |-> pattern_alphanumericId, ignoreCase |-> FALSE, priority |-> 10,
     requiresLuhn |-> FALSE, contextAware |-> FALSE],
    [key |-> "accountNumber", pattern |-> pattern_accountNumber, ignoreCase |-> FALSE, priority |-> 11,
     requiresLuhn |-> FALSE, contextAware |-> FALSE],
    [key |-> "routingNumber", pattern |-> pattern_routingNumber, ignoreCase |-> FALSE, priority |-> 11,
     requiresLuhn |-> FALSE, contextAware |-> FALSE],
    [key |-> "name", pattern |-> pattern_name, ignoreCase |-> FALSE, priority |-> 13,
     requiresLuhn |-> FALSE, contextAware |-> FALSE],
    [key |-> "firstName", pattern |-> pattern_firstName, ignoreCase |-> FALSE, priority |-> 12,
     requiresLuhn |-> FALSE, contextAware |-> TRUE],
    [key |-> "companyName", pattern |-> pattern_companyName, ignoreCase |-> FALSE, priority |-> 14,
     requiresLuhn |-> FALSE, contextAware |-> FALSE],
    [key |-> "address", pattern |-> pattern_address, ignoreCase |-> FALSE, priority |-> 15,
     requiresLuhn |-> FALSE, contextAware |-> FALSE],
    [key |-> "date", pattern |-> pattern_date, ignoreCase |-> TRUE, priority |-> 16,
     requiresLuhn |-> FALSE, contextAware |-> FALSE],
    [key |-> "zipCode", pattern |-> pattern_zipCode, ignoreCase |-> FALSE, priority |-> 17,
     requiresLuhn |-> FALSE, contextAware |-> FALSE],
    [key |-> "extension", pattern |-> pattern_extension, ignoreCase |-> TRUE, priority |-> 18,
     requiresLuhn |-> FALSE, contextAware |-> FALSE],
    [key |-> "cityState", pattern |-> pattern_cityState, ignoreCase |-> FALSE, priority |-> 20,
     requiresLuhn |-> FALSE, contextAware |-> FALSE],
    [key |-> "passport", pattern |-> pattern_passport, ignoreCase |-> FALSE, priority |-> 21,
     requiresLuhn |-> FALSE, contextAware |-> FALSE],
    [key |-> "macAddress", pattern |-> pattern_macAddress, ignoreCase |-> FALSE, priority |-> 22,
     requiresLuhn |-> FALSE, contextAware |-> FALSE],
    [key |-> "username", pattern |-> pattern_username, ignoreCase |-> FALSE, priority |-> 23,
     requiresLuhn |-> FALSE, contextAware |-> FALSE],
    [key |-> "medicalLicense", pattern |-> pattern_medicalLicense, ignoreCase |-> FALSE, priority |-> 24,
     requiresLuhn |-> FALSE, contextAware |-> FALSE],
    [key |-> "deaNumber", pattern |-> pattern_deaNumber, ignoreCase |-> FALSE, priority |-> 25,
     requiresLuhn |-> FALSE, contextAware |-> FALSE],
    [key |-> "deviceId", pattern |-> pattern_deviceId, ignoreCase |-> FALSE, priority |-> 26,
     requiresLuhn |-> FALSE, contextAware |-> FALSE],
    [key |-> "fingerprint", pattern |-> pattern_fingerprint, ignoreCase |-> FALSE, priority |-> 27,
     requiresLuhn |-> FALSE, contextAware |-> FALSE],
    [key |-> "licenseNumber", pattern |-> pattern_licenseNumber, ignoreCase |-> FALSE, priority |-> 29,
     requiresLuhn |-> FALSE, contextAware |-> FALSE],
    [key |-> "apartment", pattern |-> pattern_apartment, ignoreCase |-> TRUE, priority |-> 34,
     requiresLuhn |-> FALSE, contextAware |-> FALSE],
    [key |-> "trackingNumber", pattern |-> pattern_trackingNumber, ignoreCase |-> FALSE, priority |-> 35,
     requiresLuhn |-> FALSE, contextAware |-> FALSE],
    [key |-> "orderID", pattern |-> pattern_orderID, ignoreCase |-> FALSE, priority |-> 36,
     requiresLuhn |-> FALSE, contextAware |-> FALSE],
    [key |-> "poBox", pattern |-> pattern_poBox, ignoreCase |-> TRUE, priority |-> 35,
     requiresLuhn |-> FALSE, contextAware |-> FALSE]
>>

\* Object.keys(this.piiPatterns)
AllTypes == {piiPatterns[j].key : j \in 1..Len(piiPatterns)}

(***************************************************************************)
(* Word lists of the validators.                                           *)
(***************************************************************************)
jsonStructureWords == {<<"t","i","m","e","s","t","a","m","p">>,
    <<"d","a","t","a","_","s","o","u","r","c","e">>,
    <<"p","u","r","p","o","s","e">>, <<"r","e","c","o","r","d","s">>,
    <<"m","e","t","a","d","a","t","a">>,
    <<"t","e","s","t","_","d","a","t","a","s","e","t">>,
    <<"r","e","c","o","r","d","_","i","d">>,
    <<"d","a","t","a","_","c","l","a","s","s","i","f","i","c","a","t","i","o","n">>
    , <<"c","o","n","t","a","i","n","s","_","p","i","i">>,
    <<"p","i","i","_","t","y","p","e","s">>,
    <<"c","o","m","p","l","i","a","n","c","e","_","n","o","t","e","s">>,
    <<"g","d","p","r","_","a","p","p","l","i","c","a","b","l","e">>,
    <<"c","c","p","a","_","a","p","p","l","i","c","a","b","l","e">>,
    <<"h","i","p","a","a","_","a","p","p","l","i","c","a","b","l","e">>,
    <<"t","o","t","a","l","_","r","e","c","o","r","d","s">>,
    <<"o","r","d","e","r","_","n","u","m","b","e","r">>,
    <<"e","x","t","e","r","n","a","l","_","o","r","d","e","r","_","i","d">>,
    <<"o","r","d","e","r","_","d","a","t","e">>,
    <<"o","r","d","e","r","_","s","t","a","t","u","s">>,
    <<"o","r","d","e","r","_","t","o","t","a","l">>,
    <<"t","a","x","_","a","m","o","u","n","t">>,
    <<"s","h","i","p","p","i","n","g","_","a","m","o","u","n","t">>,
    <<"d","i","s","c","o","u","n","t","_","a","m","o","u","n","t">>,
    <<"c","u","s","t","o","m","e","r","_","i","d">>,
    <<"l","o","y","a","l","t","y","_","m","e","m","b","e","r">>,
    <<"l","o","y","a","l","t","y","_","t","i","e","r">>,
    <<"b","i","l","l","i","n","g","_","a","d","d","r","e","s","s">>,
    <<"s","h","i","p","p","i","n","g","_","a","d","d","r","e","s","s">>,
    <<"a","d","d","r","e","s","s","_","l","i","n","e","_","1">>,
    <<"a","d","d","r","e","s","s","_","l","i","n","e","_","2">>,
    <<"p","o","s","t","a","l","_","c","o","d","e">>,
    <<"c","o","u","n","t","r","y">>, <<"s","h","i","p","m","e","n","t","s">>,
    <<"s","h","i","p","m","e","n","t","_","i","d">>,
    <<"t","r","a","c","k","i","n","g","_","n","u","m","b","e","r">>,
    <<"c","a","r","r","i","e","r">>,
    <<"c","a","r","r","i","e","r","_","s","e","r","v","i","c","e">>,
    <<"s","h","i","p","_","d","a","t","e">>,
    <<"e","s","t","i","m","a","t","e","d","_","d","e","l","i","v","e","r","y","_","d","a","t","e">>
    ,
    <<"a","c","t","u","a","l","_","d","e","l","i","v","e","r","y","_","d","a","t","e">>
    , <<"s","h","i","p","m","e","n","t","_","s","t","a","t","u","s">>,
    <<"t","r","a","c","k","i","n","g","_","u","r","l">>,
    <<"s","h","i","p","p","e","d","_","f","r","o","m">>,
    <<"f","a","c","i","l","i","t","y","_","n","a","m","e">>,
    <<"t","r","a","c","k","i","n","g","_","e","v","e","n","t","s">>,
    <<"e","v","e","n","t","_","d","a","t","e">>,
    <<"e","v","e","n","t","_","t","y","p","e">>,
    <<"l","o","c","a","t","i","o","n">>,
    <<"d","e","s","c","r","i","p","t","i","o","n">>,
    <<"c","a","r","r","i","e","r","_","e","v","e","n","t","_","c","o","d","e">>
    ,
    <<"d","e","l","i","v","e","r","y","_","i","n","s","t","r","u","c","t","i","o","n","s">>
    ,
    <<"s","i","g","n","a","t","u","r","e","_","r","e","q","u","i","r","e","d">>
    , <<"i","n","s","u","r","a","n","c","e","_","v","a","l","u","e">>,
    <<"r","e","t","u","r","n","s">>, <<"r","e","t","u","r","n","_","i","d">>,
    <<"r","e","t","u","r","n","_","d","a","t","e">>,
    <<"r","e","t","u","r","n","_","s","t","a","t","u","s">>,
    <<"r","e","t","u","r","n","_","r","e","a","s","o","n">>,
    <<"r","e","t","u","r","n","_","t","y","p","e">>,
    <<"r","e","f","u","n","d","_","a","m","o","u","n","t">>,
    <<"r","e","t","u","r","n","_","s","h","i","p","p","i","n","g","_","l","a","b","e","l">>
    , <<"n","o","t","i","f","i","c","a","t","i","o","n","s">>,
    <<"o","r","d","e","r","_","c","o","n","f","i","r","m","a","t","i","o","n","_","s","e","n","t">>
    ,
    <<"s","h","i","p","p","i","n","g","_","n","o","t","i","f","i","c","a","t","i","o","n","_","s","e","n","t">>
    ,
    <<"d","e","l","i","v","e","r","y","_","n","o","t","i","f","i","c","a","t","i","o","n","_","s","e","n","t">>
    , <<"s","m","s","_","e","n","a","b","l","e","d">>,
    <<"e","m","a","i","l","_","e","n","a","b","l","e","d">>,
    <<"p","u","s","h","_","n","o","t","i","f","i","c","a","t","i","o","n","s","_","e","n","a","b","l","e","d">>
    , <<"c","u","s","t","o","m","_","a","t","t","r","i","b","u","t","e","s">>
    , <<"s","o","u","r","c","e","_","c","h","a","n","n","e","l">>,
    <<"m","a","r","k","e","t","i","n","g","_","c","a","m","p","a","i","g","n">>
    , <<"g","i","f","t","_","o","r","d","e","r">>,
    <<"p","r","i","o","r","i","t","y","_","s","h","i","p","p","i","n","g">>,
    <<"c","u","s","t","o","m","e","r","_","n","o","t","e","s">>,
    <<"i","n","t","e","r","n","a","l","_","n","o","t","e","s">>,
    <<"p","a","y","m","e","n","t","_","i","n","f","o">>,
    <<"p","a","y","m","e","n","t","_","m","e","t","h","o","d">>,
    <<"c","a","r","d","_","t","y","p","e">>,
    <<"l","a","s","t","_","f","o","u","r">>,
    <<"p","a","y","m","e","n","t","_","s","t","a","t","u","s">>,
    <<"t","r","a","n","s","a","c","t","i","o","n","_","i","d">>,
    <<"f","u","l","f","i","l","l","m","e","n","t","_","l","o","c","a","t","i","o","n">>
    , <<"w","a","r","e","h","o","u","s","e","_","i","d">>,
    <<"w","a","r","e","h","o","u","s","e","_","n","a","m","e">>,
    <<"c","r","e","a","t","e","d","_","a","t">>,
    <<"u","p","d","a","t","e","d","_","a","t">>, <<"t","a","g","s">>,
    <<"a","p","i","_","v","e","r","s","i","o","n">>,
    <<"r","e","q","u","e","s","t","_","i","d">>,
    <<"r","e","t","a","i","l","e","r","_","i","d">>,
    <<"e","n","v","i","r","o","n","m","e","n","t">>, <<"i","t","e","m","s">>,
    <<"s","k","u">>, <<"p","r","o","d","u","c","t","_","i","d">>,
    <<"n","a","m","e">>, <<"q","u","a","n","t","i","t","y">>,
    <<"u","n","i","t","_","p","r","i","c","e">>,
    <<"t","o","t","a","l","_","p","r","i","c","e">>,
    <<"c","a","t","e","g","o","r","y">>,
    <<"s","u","b","c","a","t","e","g","o","r","y">>, <<"b","r","a","n","d">>,
    <<"s","i","z","e">>, <<"c","o","l","o","r">>, <<"w","e","i","g","h","t">>
    , <<"d","i","m","e","n","s","i","o","n","s">>, <<"l","e","n","g","t","h">>
    , <<"w","i","d","t","h">>, <<"h","e","i","g","h","t">>,
    <<"u","n","i","t">>, <<"i","m","a","g","e","_","u","r","l">>,
    <<"p","r","o","d","u","c","t","_","u","r","l">>,
    <<"g","i","f","t","_","m","e","s","s","a","g","e">>,
    <<"c","u","s","t","o","m","i","z","a","t","i","o","n">>,
    <<"m","o","n","o","g","r","a","m">>,
    <<"t","h","r","e","a","d","_","c","o","l","o","r">>,
    <<"c","o","n","d","i","t","i","o","n">>,
    <<"l","a","b","e","l","_","u","r","l">>, <<"a","m","o","u","n","t">>,
    <<"c","u","r","r","e","n","c","y">>, <<"v","a","l","u","e">>,
    <<"s","h","i","p","p","e","d">>,
    <<"i","n","_","t","r","a","n","s","i","t">>,
    <<"d","e","l","i","v","e","r","e","d">>, <<"p","e","n","d","i","n","g">>,
    <<"a","p","p","r","o","v","e","d">>, <<"r","e","j","e","c","t","e","d">>,
    <<"c","o","m","p","l","e","t","e","d">>,
    <<"p","r","o","c","e","s","s","i","n","g">>,
    <<"c","a","n","c","e","l","e","d">>, <<"r","e","t","u","r","n","e","d">>,
    <<"e","x","c","h","a","n","g","e">>, <<"r","e","f","u","n","d">>,
    <<"w","e","b","s","i","t","e">>,
    <<"m","o","b","i","l","e","_","a","p","p">>, <<"p","h","o","n","e">>,
    <<"e","m","a","i","l">>, <<"c","h","a","t">>, <<"f","a","l","s","e">>,
    <<"t","r","u","e">>, <<"i","n","c","h","e","s">>, <<"l","b","s">>,
    <<"k","g">>, <<"c","m">>, <<"c","o","t","t","o","n">>,
    <<"c","l","a","s","s","i","c">>, <<"p","r","e","m","i","u","m">>,
    <<"m","e","d","i","u","m">>, <<"l","a","r","g","e">>,
    <<"s","m","a","l","l">>, <<"b","l","u","e">>, <<"n","a","v","y">>,
    <<"i","n","d","i","g","o">>, <<"b","l","a","c","k">>,
    <<"w","h","i","t","e">>, <<"r","e","d">>, <<"g","r","e","e","n">>,
    <<"f","r","o","n","t">>, <<"b","a","c","k">>, <<"d","o","o","r">>,
    <<"f","a","c","i","l","i","t","y">>, <<"p","a","c","k","a","g","e">>,
    <<"a","r","r","i","v","e","d">>, <<"d","e","p","a","r","t","e","d">>,
    <<"w","r","o","n","g">>, <<"s","t","y","l","e">>, <<"f","i","t">>,
    <<"b","u","t","t","o","n">>, <<"d","o","w","n">>, <<"s","h","i","r","t">>
    , <<"j","e","a","n","s">>, <<"d","e","n","i","m">>,
    <<"s","t","r","a","i","g","h","t">>,
    <<"p","r","o","d","u","c","t","i","o","n">>,
    <<"d","e","v","e","l","o","p","m","e","n","t">>,
    <<"s","t","a","g","i","n","g">>}

commonWords == {<<"V","i","s","a">>, <<"C","a","r","d">>, <<"T","y","p","e">>
    , <<"S","t","a","t","u","s">>, <<"D","a","t","e">>, <<"C","o","d","e">>,
    <<"N","u","m","b","e","r">>, <<"A","m","o","u","n","t">>,
    <<"T","o","t","a","l">>, <<"O","r","d","e","r">>,
    <<"C","u","s","t","o","m","e","r">>, <<"A","d","d","r","e","s","s">>,
    <<"P","h","o","n","e">>, <<"E","m","a","i","l">>,
    <<"P","a","y","m","e","n","t">>, <<"S","h","i","p","p","i","n","g">>,
    <<"P","r","o","d","u","c","t">>, <<"I","t","e","m","s">>,
    <<"D","e","s","c","r","i","p","t","i","o","n">>,
    <<"C","a","t","e","g","o","r","y">>, <<"B","r","a","n","d">>,
    <<"S","i","z","e">>, <<"C","o","l","o","r">>, <<"W","e","i","g","h","t">>
    , <<"V","a","l","u","e">>, <<"U","n","i","t">>,
    <<"Q","u","a","n","t","i","t","y">>, <<"P","r","i","c","e">>,
    <<"I","m","a","g","e">>, <<"L","o","c","a","t","i","o","n">>,
    <<"C","l","a","s","s","i","c">>, <<"B","l","u","e">>,
    <<"C","o","t","t","o","n">>, <<"S","h","i","r","t">>, <<"N","a","v","y">>
    , <<"M","e","d","i","u","m">>, <<"L","a","r","g","e">>,
    <<"S","m","a","l","l">>, <<"I","n","d","i","g","o">>,
    <<"D","e","n","i","m">>, <<"J","e","a","n","s">>,
    <<"P","r","e","m","i","u","m">>, <<"B","l","a","c","k">>,
    <<"W","h","i","t","e">>, <<"R","e","d">>, <<"G","r","e","e","n">>,
    <<"G","o","l","d">>, <<"S","i","l","v","e","r">>, <<"S","t","y","l","e">>
    , <<"C","l","o","t","h","i","n","g">>, <<"S","h","i","r","t","s">>,
    <<"B","u","t","t","o","n">>, <<"D","o","w","n">>,
    <<"S","t","r","a","i","g","h","t">>, <<"F","i","t">>,
    <<"T","h","r","e","a","d">>, <<"F","a","b","r","i","c">>,
    <<"M","a","t","e","r","i","a","l">>, <<"D","e","s","i","g","n">>,
    <<"S","h","i","p","p","e","d">>, <<"D","e","l","i","v","e","r","e","d">>,
    <<"P","e","n","d","i","n","g">>, <<"A","p","p","r","o","v","e","d">>,
    <<"C","o","m","p","l","e","t","e","d">>,
    <<"P","r","o","c","e","s","s","i","n","g">>,
    <<"C","a","n","c","e","l","e","d">>, <<"R","e","t","u","r","n","e","d">>,
    <<"T","r","a","n","s","i","t">>, <<"G","r","o","u","n","d">>,
    <<"E","x","p","r","e","s","s">>, <<"S","t","a","n","d","a","r","d">>,
    <<"D","i","s","t","r","i","b","u","t","i","o","n">>,
    <<"C","e","n","t","e","r">>, <<"E","a","s","t">>, <<"W","e","s","t">>,
    <<"N","o","r","t","h">>, <<"S","o","u","t","h">>,
    <<"W","a","r","e","h","o","u","s","e">>,
    <<"F","a","c","i","l","i","t","y">>, <<"P","a","c","k","a","g","e">>,
    <<"C","a","r","r","i","e","r">>, <<"S","e","r","v","i","c","e">>,
    <<"A","i","r">>, <<"I","n","c","h","e","s">>, <<"P","o","u","n","d","s">>
    , <<"O","u","n","c","e","s">>, <<"G","r","a","m","s">>,
    <<"K","i","l","o","g","r","a","m","s">>, <<"L","e","n","g","t","h">>,
    <<"W","i","d","t","h">>, <<"H","e","i","g","h","t">>, <<"G","i","f","t">>
    , <<"M","e","s","s","a","g","e">>, <<"N","o","t","e","s">>,
    <<"T","a","g","s">>, <<"S","u","m","m","e","r">>,
    <<"W","i","n","t","e","r">>, <<"C","o","l","l","e","c","t","i","o","n">>,
    <<"S","a","l","e">>, <<"C","a","m","p","a","i","g","n">>,
    <<"W","e","b","s","i","t","e">>, <<"M","o","b","i","l","e">>,
    <<"A","p","p">>, <<"C","h","a","t">>, <<"S","u","p","p","o","r","t">>,
    <<"H","e","l","p">>, <<"P","r","o","d","u","c","t","i","o","n">>,
    <<"D","e","v","e","l","o","p","m","e","n","t">>,
    <<"S","t","a","g","i","n","g">>,
    <<"E","n","v","i","r","o","n","m","e","n","t">>,
    <<"V","e","r","s","i","o","n">>, <<"R","e","q","u","e","s","t">>}

(***************************************************************************)
(* Validators.                                                             *)
(***************************************************************************)
DigitSeq == <<"0","1","2","3","4","5","6","7","8","9">>
digitValue(c) == (CHOOSE k \in 1..10 : DigitSeq[k] = c) - 1

\* a luhnCheck that forgets to subtract 9 from a doubled digit above 9
luhnCheckNoCarry(numberStr) ==
    LET kept == SelectSeq(numberStr, LAMBDA c : c \in Digit)
        digits == [k \in 1..Len(kept) |-> digitValue(kept[k])]
        parity == Len(digits) % 2
        term(i) == IF i % 2 = parity THEN digits[i + 1] * 2 ELSE digits[i + 1]
        RECURSIVE checksum(_)
        checksum(i) == IF i >= Len(digits) THEN 0 ELSE term(i) + checksum(i + 1)
    IN IF Len(digits) < 13 \/ Len(digits) > 19 THEN FALSE
       ELSE checksum(0) % 10 = 0

\* luhnCheck(numberStr)
luhnCheck(numberStr) ==
    LET kept == SelectSeq(numberStr, LAMBDA c : c \in Digit)
        digits == [k \in 1..Len(kept) |-> digitValue(kept[k])]
        parity == Len(digits) % 2
        \* the loop body for the 0-based index i
        term(i) == LET digit == digits[i + 1]
                       doubled == digit * 2
                   IN IF i % 2 = parity
                      THEN (IF doubled > 9 THEN doubled - 9 ELSE doubled)
                      ELSE digit
        RECURSIVE checksum(_)
        checksum(i) == IF i >= Len(digits) THEN 0 ELSE term(i) + checksum(i + 1)
    IN IF Len(digits) < 13 \/ Len(digits) > 19 THEN FALSE
       ELSE checksum(0) % 10 = 0

\* isJsonStructure(before, match, after)
isJsonStructure(before, match, after) ==
    IF endsWith(before, <<"\"">>) /\ startsWith(after, <<"\"", ":">>) THEN TRUE
    ELSE IF /\ toLowerCase(match) \in jsonStructureWords
            /\ endsWith(before, <<"\"">>)
            /\ startsWith(after, <<"\"", ":">>) THEN TRUE
    ELSE FALSE

\* isCommonWord(word)
isCommonWord(word) == word \in commonWords

(***************************************************************************)
(* The state of the PIITool object and of the page it drives.              *)
(*   inputValue     the value of the #inputText textarea                   *)
(*   detectedPII    this.detectedPII                                       *)
(*   enabledTypes   this.enabledTypes                                      *)
(*   processedText  this.processedText                                     *)
(*   processedData  this.processedData                                     *)
(*   scans          the processLargeText calls suspended in sleep(10)      *)
(*                  each with its text, the number i of chunks it has      *)
(*                  scanned and the progress it last reported              *)
(*   pending        the applyEncryption calls suspended in an await        *)
(*   toast          the showToast message of the last step, "none" when   *)
(*                  the step showed none                                   *)
(*   analysed       the document whose analysis has just completed with    *)
(*                  detectedPII as its result, with the path it took       *)
(*   applied        what the applyEncryption call read whose output        *)
(*                  processedText and processedData hold                   *)
(*   commands       the number of commands given so far                    *)
(*   scanTable      scanText tabulated over the texts the detector is      *)
(*                  handed; never changes                                  *)
(*   argument       the input of a function that is run on its own         *)
(*   returned       what that function returned                            *)
(***************************************************************************)
VARIABLES inputValue, detectedPII, enabledTypes, processedText, processedData,
          scans, pending, toast, analysed, applied, commands, scanTable,
          argument, returned

vars == <<inputValue, detectedPII, enabledTypes, processedText, processedData,
          scans, pending, toast, analysed, applied, commands, scanTable,
          argument, returned>>

\* what no handler of the page writes
aside == <<scanTable, argument, returned>>

(***************************************************************************)
(* The detector.                                                           *)
(***************************************************************************)
\* (a[1].priority || 99)
sortKey(pii) == IF pii.priority = 0 THEN 99 ELSE pii.priority

\* entry k stands before entry j when ties go to the entry declared later
sortsBeforeTiesReversed(entries, k, j) ==
    \/ sortKey(entries[k]) - sortKey(entries[j]) < 0
    \/ sortKey(entries[k]) - sortKey(entries[j]) = 0 /\ k > j

\* entry k stands before entry j after the sort: the comparator is negative,
\* or it is zero and k was declared first (Array.prototype.sort is stable)
sortsBefore(entries, k, j) ==
    \/ sortKey(entries[k]) - sortKey(entries[j]) < 0
    \/ sortKey(entries[k]) - sortKey(entries[j]) = 0 /\ k < j

\* Object.entries(this.piiPatterns).sort((a, b) => ...)
sortedPatterns ==
    <<>> \o [n \in 1..Len(piiPatterns) |->
                piiPatterns[CHOOSE j \in 1..Len(piiPatterns) :
                               Cardinality({k \in 1..Len(piiPatterns) :
                                               sortsBefore(piiPatterns, k, j)}) = n - 1]]

RECURSIVE execFrom(_, _, _)
\* the successive results of regex.exec(text) from lastIndex on, as [text, index]
execFrom(pii, text, lastIndex) ==
    LET starts == {p \in lastIndex..Len(text) :
                      Ends(pii.pattern, text, p + 1, pii.ignoreCase) # <<>>}
    IN IF starts = {} THEN <<>>
       ELSE LET start == CHOOSE p \in starts : \A q \in starts : p <= q
                end == Head(Ends(pii.pattern, text, start + 1, pii.ignoreCase)) - 1
            IN <<[text |-> SubSeq(text, start + 1, end), index |-> start]>>
               \o execFrom(pii, text, IF end > start THEN end ELSE start + 1)

\* the filters of the while loop without the Luhn validation
acceptedUnvalidated(pii, text, match) ==
    LET beforeMatch == substring(text, Max(0, match.index - 10), match.index)
        afterMatch == substring(text, match.index + Len(match.text),
                                match.index + Len(match.text) + 10)
    IN /\ ~isJsonStructure(beforeMatch, match.text, afterMatch)
       /\ ~(pii.contextAware /\ isCommonWord(match.text))

\* the three filters of the while loop, for one regex result
accepted(pii, text, match) ==
    LET beforeMatch == substring(text, Max(0, match.index - 10), match.index)
        afterMatch == substring(text, match.index + Len(match.text),
                                match.index + Len(match.text) + 10)
    IN /\ ~isJsonStructure(beforeMatch, match.text, afterMatch)
       /\ ~(pii.contextAware /\ isCommonWord(match.text))
       /\ (pii.key = "creditCard" /\ pii.requiresLuhn) => luhnCheck(match.text)

\* the matches array the while loop builds for one category over text, with the
\* indices regex.exec reports (offset 0)
collectMatches(pii, text) ==
    SelectSeq(execFrom(pii, text, 0), LAMBDA m : accepted(pii, text, m))

(***************************************************************************)
(* this.detectedPII is an object whose keys keep insertion order: a         *)
(* sequence of entries [key, matches, count].                               *)
(***************************************************************************)
hasKey(detected, key) == \E j \in 1..Len(detected) : detected[j].key = key
keyIndex(detected, key) == CHOOSE j \in 1..Len(detected) : detected[j].key = key
keysOf(detected) == {detected[j].key : j \in 1..Len(detected)}

\* sortedPatterns.forEach over text: the non-empty matches arrays as
\* [key, matches], in the order the categories are visited
scanText(text) ==
    LET scanned == [j \in 1..Len(sortedPatterns) |->
                       [key |-> sortedPatterns[j].key,
                        matches |-> collectMatches(sortedPatterns[j], text)]]
    IN SelectSeq(scanned, LAMBDA e : Len(e.matches) > 0)

\* scanText(text), as tabulated in scanTable
scanOf(text) == scanTable[text]

\* one scan of text with each index shifted by offset (0 in
\* processStandardText, chunk.offset in processChunk)
scanCategories(text, offset) ==
    LET found == scanOf(text)
    IN [j \in 1..Len(found) |->
           [key |-> found[j].key,
            matches |-> [k \in 1..Len(found[j].matches) |->
                            [text |-> found[j].matches[k].text,
                             index |-> found[j].matches[k].index + offset]]]]

\* processStandardText(inputText): this.detectedPII afterwards.  Each category
\* with matches is assigned detectedPII[key] = {matches, count}: an existing key
\* keeps its place, a new key is added at the end.
processStandardText(detected, inputText) ==
    LET found == scanCategories(inputText, 0)
        entry(f) == [key |-> f.key, matches |-> f.matches, count |-> Len(f.matches)]
        isNew(f) == ~hasKey(detected, f.key)
        fresh == SelectSeq(found, isNew)
    IN [j \in 1..Len(detected) |->
           IF hasKey(found, detected[j].key)
           THEN entry(found[keyIndex(found, detected[j].key)])
           ELSE detected[j]]
       \o [j \in 1..Len(fresh) |-> entry(fresh[j])]

(***************************************************************************)
(* The chunker, the per-chunk scan and the deduplicator.                   *)
(***************************************************************************)
chunkSize == 20
overlap == 8
\* analyzeText: inputText.length > 50000
largeTextThreshold == 30

RECURSIVE chunksWithoutOverlap(_, _)
\* a chunker that advances by chunkSize, so that its windows do not overlap
chunksWithoutOverlap(inputText, i) ==
    IF i >= Len(inputText) THEN <<>>
    ELSE LET end == Min(i + chunkSize, Len(inputText))
         IN <<[text |-> slice(inputText, i, end), offset |-> i]>>
            \o chunksWithoutOverlap(inputText, i + chunkSize)

RECURSIVE chunksOfFullSize(_, _)
\* a chunker that stops before a window the document does not fill
chunksOfFullSize(inputText, i) ==
    IF i + chunkSize > Len(inputText) THEN <<>>
    ELSE <<[text |-> slice(inputText, i, i + chunkSize), offset |-> i]>>
         \o chunksOfFullSize(inputText, i + (chunkSize - overlap))

\* processLargeText: for (let i = 0; i < inputText.length; i += chunkSize - overlap)
RECURSIVE chunksFrom(_, _)
chunksFrom(inputText, i) ==
    IF i >= Len(inputText) THEN <<>>
    ELSE LET end == Min(i + chunkSize, Len(inputText))
         IN <<[text |-> slice(inputText, i, end), offset |-> i]>>
            \o chunksFrom(inputText, i + (chunkSize - overlap))

\* the chunks array of processLargeText
createChunks(inputText) == chunksFrom(inputText, 0)

\* a processChunk that sets count to the number of the chunk's matches instead
\* of adding it
processChunkCountSet(detected, chunk, resetData) ==
    LET start == IF resetData THEN <<>> ELSE detected
        found == scanCategories(chunk.text, chunk.offset)
        isNew(f) == ~hasKey(start, f.key)
        fresh == SelectSeq(found, isNew)
    IN [j \in 1..Len(start) |->
           IF hasKey(found, start[j].key)
           THEN LET matches == found[keyIndex(found, start[j].key)].matches
                IN [key |-> start[j].key,
                    matches |-> start[j].matches \o matches,
                    count |-> Len(matches)]
           ELSE start[j]]
       \o [j \in 1..Len(fresh) |->
              [key |-> fresh[j].key, matches |-> fresh[j].matches,
               count |-> Len(fresh[j].matches)]]

\* processChunk(chunk, resetData): this.detectedPII afterwards.  Each category
\* with matches in the chunk gets them pushed onto its entry (created empty at
\* the end of the object when missing) and its count raised by their number.
processChunk(detected, chunk, resetData) ==
    LET start == IF resetData THEN <<>> ELSE detected
        found == scanCategories(chunk.text, chunk.offset)
        isNew(f) == ~hasKey(start, f.key)
        fresh == SelectSeq(found, isNew)
    IN [j \in 1..Len(start) |->
           IF hasKey(found, start[j].key)
           THEN LET matches == found[keyIndex(found, start[j].key)].matches
                IN [key |-> start[j].key,
                    matches |-> start[j].matches \o matches,
                    count |-> start[j].count + Len(matches)]
           ELSE start[j]]
       \o [j \in 1..Len(fresh) |->
              [key |-> fresh[j].key, matches |-> fresh[j].matches,
               count |-> 0 + Len(fresh[j].matches)]]

RECURSIVE decimal(_)
\* String(n) for n >= 0
decimal(n) == IF n < 10 THEN <<DigitSeq[n + 1]>>
              ELSE decimal(n \div 10) \o <<DigitSeq[(n % 10) + 1]>>

\* an identifier that leaves out the index
identifierOfText(match) == match.text

\* `${match.index}-${match.text}`
identifier(match) == decimal(match.index) \o <<"-">> \o match.text

RECURSIVE uniqueFrom(_, _, _)
\* the forEach of deduplicateMatches: uniqueMatches, given the identifiers seen
uniqueFrom(matches, j, seen) ==
    IF j > Len(matches) THEN <<>>
    ELSE IF identifier(matches[j]) \in seen THEN uniqueFrom(matches, j + 1, seen)
    ELSE <<matches[j]>> \o uniqueFrom(matches, j + 1, seen \cup {identifier(matches[j])})

\* deduplicateMatches(): this.detectedPII afterwards
deduplicateMatches(detected) ==
    [j \in 1..Len(detected) |->
        LET uniqueMatches == uniqueFrom(detected[j].matches, 1, {})
        IN [key |-> detected[j].key, matches |-> uniqueMatches,
            count |-> Len(uniqueMatches)]]

(***************************************************************************)
(* The transformer: applyEncryption and the replacements it computes.      *)
(***************************************************************************)
\* the printable ASCII characters, in code order from 32 (space) to 126 (~);
\* code 96 stands as "grave", a string literal cannot hold that character
asciiPrintable == <<
    " ", "!", "\"", "#", "$", "%", "&", "'", "(", ")", "*", "+", ",", "-", ".", "/",
    "0", "1", "2", "3", "4", "5", "6", "7", "8", "9", ":", ";", "<", "=", ">", "?",
    "@", "A", "B", "C", "D", "E", "F", "G", "H", "I", "J", "K", "L", "M", "N", "O",
    "P", "Q", "R", "S", "T", "U", "V", "W", "X", "Y", "Z", "[", "\\", "]", "^", "_",
    "grave", "a", "b", "c", "d", "e", "f", "g", "h", "i", "j", "k", "l", "m", "n", "o",
    "p", "q", "r", "s", "t", "u", "v", "w", "x", "y", "z", "{", "|", "}", "~">>

\* c.charCodeAt(0)
charCodes == [c \in {asciiPrintable[k] : k \in 1..Len(asciiPrintable)} |->
                 31 + (CHOOSE k \in 1..Len(asciiPrintable) : asciiPrintable[k] = c)]
charCodeAt(c) == charCodes[c]

\* a ^ b on the low `bits` bits
RECURSIVE xor(_, _, _)
xor(a, b, bits) ==
    IF bits = 0 THEN 0
    ELSE (((a % 2) + (b % 2)) % 2) + 2 * xor(a \div 2, b \div 2, bits - 1)

base64Alphabet == UpperSeq \o LowerSeq \o DigitSeq \o <<"+", "/">>

RECURSIVE btoaFrom(_, _)
\* btoa over the bytes from position j (1-based) on
btoaFrom(bytes, j) ==
    LET n == Len(bytes) - j + 1
        b1 == bytes[j]
        b2 == IF n >= 2 THEN bytes[j + 1] ELSE 0
        b3 == IF n >= 3 THEN bytes[j + 2] ELSE 0
        sextet(k) == base64Alphabet[k + 1]
    IN IF n <= 0 THEN <<>>
       ELSE <<sextet(b1 \div 4), sextet((b1 % 4) * 16 + (b2 \div 16))>>
            \o (IF n >= 2 THEN <<sextet((b2 % 16) * 4 + (b3 \div 64))>> ELSE <<"=">>)
            \o (IF n >= 3 THEN <<sextet(b3 % 64)>> ELSE <<"=">>)
            \o btoaFrom(bytes, j + 3)

\* btoa(String.fromCharCode(...bytes))
btoa(bytes) == withValue(bytes, LAMBDA b : btoaFrom(b, 1))

(***************************************************************************)
(* 32-bit integers as two 16-bit limbs [hi, lo], for fallbackHash.         *)
(***************************************************************************)
limb == 65536

\* hash << 5
shiftLeft5(h) ==
    [hi |-> ((h.hi * 32) + ((h.lo * 32) \div limb)) % limb, lo |-> (h.lo * 32) % limb]

\* a - b, in 32 bits
minus32(a, b) ==
    [hi |-> (a.hi - b.hi - (IF a.lo < b.lo THEN 1 ELSE 0) + 2 * limb) % limb,
     lo |-> (a.lo - b.lo + limb) % limb]

\* a + n for a small n >= 0, in 32 bits
plus32(a, n) ==
    [hi |-> (a.hi + ((a.lo + n) \div limb)) % limb, lo |-> (a.lo + n) % limb]

\* Math.abs of the signed reading
abs32(h) ==
    IF h.hi < (limb \div 2) THEN h
    ELSE [hi |-> (limb - 1 - h.hi + (IF h.lo = 0 THEN 1 ELSE 0)) % limb,
          lo |-> (limb - h.lo) % limb]

hexDigits == DigitSeq \o <<"a", "b", "c", "d", "e", "f">>

RECURSIVE hexOf(_, _)
\* the last `width` hexadecimal digits of n
hexOf(n, width) ==
    IF width = 0 THEN <<>> ELSE hexOf(n \div 16, width - 1) \o <<hexDigits[(n % 16) + 1]>>

RECURSIVE stripZeros(_)
stripZeros(s) == IF Len(s) > 1 /\ Head(s) = "0" THEN stripZeros(Tail(s)) ELSE s

\* h.toString(16) for h >= 0
toString16(h) == stripZeros(hexOf(h.hi, 4) \o hexOf(h.lo, 4))

\* the body of the for loop of fallbackHash
fallbackStep(hash, char) == plus32(minus32(shiftLeft5(hash), hash), char)

RECURSIVE fallbackLoop(_, _, _, _)
\* the for loop of fallbackHash over the characters lo..hi of text, entered
\* with hash; the range is halved, so that the evaluation nests
\* log(hi - lo) deep
fallbackLoop(hash, text, lo, hi) ==
    IF lo > hi THEN hash
    ELSE IF lo = hi THEN fallbackStep(hash, charCodeAt(text[lo]))
    ELSE withValue(fallbackLoop(hash, text, lo, (lo + hi) \div 2),
                   LAMBDA half : fallbackLoop(half, text, ((lo + hi) \div 2) + 1, hi))

\* fallbackHash(text)
fallbackHash(text) ==
    substring(toString16(abs32(fallbackLoop([hi |-> 0, lo |-> 0], text, 1, Len(text)))), 0, 8)

\* SHA-256 of the texts the documents of the model can yield as matches: the
\* first 16 hexadecimal digits of each digest
digestTable == <<
    [text |-> <<"1","2","3","4","5">>,
     hex |-> <<"5","9","9","4","4","7","1","a","b","b","0","1","1","1","2","a">>],
    [text |-> <<"B","o","b">>,
     hex |-> <<"c","d","9","f","b","1","e","1","4","8","c","c","d","8","4","4">>],
    [text |-> <<"C","o","n","t","a","c","t">>,
     hex |-> <<"2","b","5","c","3","d","2","6","7","2","1","a","e","9","c","3">>],
    [text |-> <<"a","@","B","o","b",".","c","c">>,
     hex |-> <<"7","8","b","a","8","9","3","3","8","5","b","6","d","2","d","9">>],
    [text |-> <<"a","@","b",".","c","c">>,
     hex |-> <<"a","8","c","4","2","7","1","f","f","c","a","1","7","a","5","7">>],
    [text |-> <<"a","@","b",".","c","c","c">>,
     hex |-> <<"0","6","6","f","1","b","9","1","2","f","1","f","4","f","4","3">>],
    [text |-> <<"e","m","a","i","l",".","c","o","m">>,
     hex |-> <<"e","8","a","f","a","1","4","b","5","d","1","8","0","9","c","b">>],
    [text |-> <<"j","o","h","n",".","d","o","e">>,
     hex |-> <<"3","0","f","6","9","6","7","0","b","b","a","2","5","e","8","8">>],
    [text |-> <<"j","o","h","n",".","d","o","e","@","e","m","a","i","l",".","c","o","m">>,
     hex |-> <<"5","5","f","5","3","7","b","a","f","7","5","6","3","0","a","8">>]>>
\* what crypto.subtle.digest('SHA-256', ...) yields for a text outside digestTable
unknownDigest == [k \in 1..16 |-> "?"]

\* the first 16 hexadecimal digits of SHA-256(text), read from digestTable
sha256Hex16(text) ==
    IF \E k \in 1..Len(digestTable) : digestTable[k].text = text
    THEN digestTable[CHOOSE k \in 1..Len(digestTable) : digestTable[k].text = text].hex
    ELSE unknownDigest

\* a secureHash that keeps 8 hexadecimal digits of the digest
secureHashOfEight(text, env) ==
    IF env.subtle THEN substring(sha256Hex16(text), 0, 8) ELSE fallbackHash(text)

\* secureHash(text); env.subtle tells whether the Web Crypto call succeeds
secureHash(text, env) ==
    IF env.subtle THEN substring(sha256Hex16(text), 0, 16) ELSE fallbackHash(text)

\* demoEncrypt(text, password)
demoEncrypt(text, password) ==
    LET result == [i \in 1..Len(text) |->
                      xor(charCodeAt(text[i]),
                          charCodeAt(password[((i - 1) % Len(password)) + 1]), 8)]
    IN <<"[", "D", "E", "M", "O", ":">> \o substring(btoa(result), 0, 12)
       \o <<".", ".", ".", "]">>

\* what crypto.subtle.encrypt returns for AES-GCM: as many bytes as the text
\* has, each depending on the text, the key (password and salt) and the iv,
\* and a tag of 16 bytes.  The cipher is the platform's; these bytes stand
\* for its output.
aesGcm(text, password, salt, iv) ==
    LET mix(i) == (IF password = <<>> THEN 0
                   ELSE charCodeAt(password[((i - 1) % Len(password)) + 1]))
                  + salt[((i - 1) % Len(salt)) + 1] + iv[((i - 1) % Len(iv)) + 1] + i
    IN [i \in 1..Len(text) |-> xor(charCodeAt(text[i]), mix(i) % 256, 8)]
       \o [i \in 1..16 |-> (mix(i) + Len(text)) % 256]

\* a secureEncrypt that keeps the whole of the encoded bytes
secureEncryptWhole(text, password, env) ==
    IF env.subtle
    THEN LET salt == SubSeq(env.random, 1, 16)
             iv == SubSeq(env.random, 17, 28)
         IN <<"[", "E", "N", "C", ":">>
            \o btoa(salt \o iv \o aesGcm(text, password, salt, iv))
            \o <<".", ".", ".", "]">>
    ELSE demoEncrypt(text, password)

\* secureEncrypt(text, password).  env.random is what the two calls of
\* crypto.getRandomValues draw: 16 bytes of salt, then 12 bytes of iv.
secureEncrypt(text, password, env) ==
    IF env.subtle
    THEN LET salt == SubSeq(env.random, 1, 16)
             iv == SubSeq(env.random, 17, 28)
             combined == salt \o iv \o aesGcm(text, password, salt, iv)
         IN <<"[", "E", "N", "C", ":">> \o substring(btoa(combined), 0, 24)
            \o <<".", ".", ".", "]">>
    ELSE demoEncrypt(text, password)

\* getSecurityLevel(method)
getSecurityLevel(method) ==
    CASE method = "encrypt" -> "High (Demo Only)"
      [] method = "hash" -> "High"
      [] method = "redact" -> "Medium"
      [] method = "mask" -> "Low"
      [] OTHER -> "None"

\* the switch of applyEncryption
replacement(method, match, password, env) ==
    CASE method = "mask" -> repeat("*", Len(match.text))
      [] method = "hash" ->
            <<"[", "H", "A", "S", "H", ":">> \o secureHash(match.text, env) \o <<"]">>
      [] method = "encrypt" -> secureEncrypt(match.text, password, env)
      [] method = "redact" -> <<"[", "R", "E", "D", "A", "C", "T", "E", "D", "]">>
      [] OTHER -> match.text

\* Object.values(this.detectedPII).reduce((sum, data) => sum + data.count, 0)
RECURSIVE sumCounts(_, _)
sumCounts(detected, j) ==
    IF j = 0 THEN 0 ELSE sumCounts(detected, j - 1) + detected[j].count

RECURSIVE everyMatchFrom(_, _, _)
\* a collection that forgets to look at enabledTypes
everyMatchFrom(detected, enabled, j) ==
    IF j > Len(detected) THEN <<>>
    ELSE detected[j].matches \o everyMatchFrom(detected, enabled, j + 1)

RECURSIVE enabledMatchesFrom(_, _, _)
\* allMatches before the sort: the matches of the enabled categories, in the
\* order Object.entries lists the categories
enabledMatchesFrom(detected, enabled, j) ==
    IF j > Len(detected) THEN <<>>
    ELSE (IF detected[j].key \in enabled THEN detected[j].matches ELSE <<>>)
         \o enabledMatchesFrom(detected, enabled, j + 1)

RECURSIVE insertDescending(_, _)
\* match placed after every element whose index is not smaller (a stable sort)
insertDescending(sorted, match) ==
    IF sorted = <<>> THEN <<match>>
    ELSE IF match.index - Head(sorted).index <= 0
         THEN <<Head(sorted)>> \o insertDescending(Tail(sorted), match)
         ELSE <<match>> \o sorted

\* the matches left in the order they were collected
sortNothing(matches, j) == SubSeq(matches, 1, j)

RECURSIVE sortDescending(_, _)
\* allMatches.sort((a, b) => b.index - a.index), over the first j elements
sortDescending(matches, j) ==
    IF j = 0 THEN <<>>
    ELSE withValue(sortDescending(matches, j - 1),
                   LAMBDA sorted : insertDescending(sorted, matches[j]))

\* allMatches as the for loop of applyEncryption walks it
allMatches(detected, enabled) ==
    withValue(enabledMatchesFrom(detected, enabled, 1),
              LAMBDA collected : sortDescending(collected, Len(collected)))

\* processedText.slice(0, start) + replacement + processedText.slice(end)
splice(current, match, rep) ==
    slice(current, 0, match.index) \o rep
    \o slice(current, match.index + Len(match.text), Len(current))

RECURSIVE spliceLoop(_, _, _, _, _, _)
\* processedText after the first j matches of the loop
spliceLoop(text, matches, j, method, password, env) ==
    IF j = 0 THEN text
    ELSE withValue(spliceLoop(text, matches, j - 1, method, password, env),
                   LAMBDA current :
                       splice(current, matches[j],
                              replacement(method, matches[j], password, env)))

\* applyEncryption(text, method, password) over this.detectedPII and
\* this.enabledTypes as it reads them: the text returned and this.processedData
applyEncryption(text, method, password, detected, enabled, env) ==
    withValue(allMatches(detected, enabled), LAMBDA matches :
       [processedText |-> spliceLoop(text, matches, Len(matches), method, password, env),
        processedData |-> [originalCount |-> sumCounts(detected, Len(detected)),
                           processedCount |-> Len(matches),
                           method |-> method,
                           securityLevel |-> getSecurityLevel(method)]])

(***************************************************************************)
(* The inputs of the model.                                                *)
(***************************************************************************)
\* the sample loadSampleText puts in the textarea, cut down to its "email" line
SampleText ==
    <<"\"","e","m","a","i","l","\"",":"," ","\"","j","o","h","n",".","d","o","e","@","e","m","a","i","l",".","c","o","m","\"">>
DocContact ==
    <<"C","o","n","t","a","c","t"," ","j","o","h","n",".","d","o","e","@","e","m","a","i","l",".","c","o","m"," ","n","o","w">>
DocPadded ==
    <<" "," ","a","@","B","o","b",".","c","c"," ","1","2","3","4","5"," ">>
DocLarge ==
    <<"1","2","3","4","5",";",";",";",";",";",";",";",";",";","a","@","b",".","c","c","c",";",";",";",";","1","2","3","4","5",";",";",";",";">>
\* a text of white space only
DocBlank == <<" ", "\t", " ">>
\* the values an edit can give the textarea
InputDocs == {DocContact, DocPadded, DocLarge, DocBlank}

\* the options of the #encryptionMethod select
Methods == {"mask", "hash", "encrypt", "redact"}

\* the values of the #encryptionPassword field: empty, too short, long enough
Passwords == {<<>>, <<"s", "e", "c", "r", "e", "t">>,
              <<"p", "a", "s", "s", "w", "o", "r", "d">>}

\* the toggles the model clicks
ToggleTypes == {"email"}

\* the draws of crypto.getRandomValues the model considers (salt and iv, 28
\* bytes each)
RandomValues == {[k \in 1..28 |-> 0], [k \in 1..28 |-> (37 * k) % 256]}

\* whether Web Crypto works, and what it draws
Environments ==
    {[subtle |-> TRUE, random |-> r] : r \in RandomValues}
    \cup {[subtle |-> FALSE, random |-> <<>>]}

\* commands (clicks on Analyze, Process or Clear) in one run
MaxCommands == 2

\* every text the detector is handed: the trimmed documents and their chunks
ScanTexts ==
    LET docs == {trim(d) : d \in InputDocs \cup {SampleText}}
    IN docs \cup UNION {{createChunks(d)[j].text : j \in 1..Len(createChunks(d))} : d \in docs}

NoAnalysis == [text |-> <<>>, path |-> "none"]
NoneApplied == [text |-> <<>>, method |-> "none", password |-> <<>>,
                detected |-> <<>>, enabled |-> {}]

(***************************************************************************)
(* Start-up: the constructor and initializeApp, which loads the sample.    *)
(***************************************************************************)
constructed ==
    /\ inputValue = SampleText
    /\ detectedPII = <<>>
    /\ enabledTypes = AllTypes
    /\ processedText = <<>>
    /\ processedData = <<>>
    /\ scans = <<>>
    /\ pending = <<>>
    /\ toast = "none"
    /\ analysed = NoAnalysis
    /\ applied = NoneApplied
    /\ commands = 0
    /\ scanTable = [t \in ScanTexts |-> scanText(t)]
    /\ returned = [done |-> FALSE]

Init ==
    /\ constructed
    /\ argument = <<>>

\* one more command (a click on Analyze, Process or Clear)
command ==
    /\ commands < MaxCommands
    /\ commands' = commands + 1

\* the user replaces the content of the textarea
EditInput(d) ==
    /\ inputValue # d
    /\ inputValue' = d
    /\ toast' = "none"
    /\ UNCHANGED <<detectedPII, enabledTypes, processedText, processedData, scans,
                   pending, analysed, applied, aside, commands>>

\* a percentage of the chunks scanned before this one
progressOfChunksBefore(i, n) == (200 * i + n) \div (2 * n)

\* Math.round(((i + 1) / chunks.length) * 100) for the chunk of index i of n:
\* Math.round takes a half upwards.  The quotient is exact here; in double
\* arithmetic it falls just below a half for some i from 40 chunks on.
progressOf(i, n) == (200 * (i + 1) + n) \div (2 * n)

\* an analyzeText that resets detectedPII before it looks at the text
analyzeTextResetFirst ==
    LET inputText == trim(inputValue)
    IN /\ command
       /\ UNCHANGED <<inputValue, enabledTypes, processedText, processedData,
                      pending, applied, aside>>
       /\ IF inputText = <<>>
          THEN /\ toast' = "error: enter text to analyze"
               /\ detectedPII' = <<>>
               /\ UNCHANGED <<scans, analysed>>
          ELSE IF Len(inputText) > largeTextThreshold
          THEN /\ detectedPII' = processChunk(<<>>, createChunks(inputText)[1], TRUE)
               /\ scans' = Append(scans, [inputText |-> inputText, i |-> 1,
                                       progress |-> progressOf(0, Len(createChunks(inputText)))])
               /\ analysed' = NoAnalysis
               /\ toast' = "none"
          ELSE /\ detectedPII' = processStandardText(<<>>, inputText)
               /\ analysed' = [text |-> inputText, path |-> "standard"]
               /\ toast' = "none"
               /\ UNCHANGED scans

\* analyzeText() up to its first suspension: the whole call for a text of at
\* most largeTextThreshold characters, the first chunk and the sleep(10) after
\* it for a longer one
analyzeText ==
    LET inputText == trim(inputValue)
    IN /\ command
       /\ UNCHANGED <<inputValue, enabledTypes, processedText, processedData,
                      pending, applied, aside>>
       /\ IF inputText = <<>>
          THEN /\ toast' = "error: enter text to analyze"
               /\ UNCHANGED <<detectedPII, scans, analysed>>
          ELSE IF Len(inputText) > largeTextThreshold
          THEN /\ detectedPII' = processChunk(<<>>, createChunks(inputText)[1], TRUE)
               /\ scans' = Append(scans, [inputText |-> inputText, i |-> 1,
                                       progress |-> progressOf(0, Len(createChunks(inputText)))])
               /\ analysed' = NoAnalysis
               /\ toast' = "none"
          ELSE /\ detectedPII' = processStandardText(<<>>, inputText)
               /\ analysed' = [text |-> inputText, path |-> "standard"]
               /\ toast' = "none"
               /\ UNCHANGED scans

\* the k-th suspended processLargeText wakes from sleep(10): it scans its next
\* chunk and sleeps again, or, past the last chunk, deduplicates and reports
processLargeText(k) ==
    LET scan == scans[k]
        chunks == createChunks(scan.inputText)
    IN /\ k \in 1..Len(scans)
       /\ UNCHANGED <<inputValue, enabledTypes, processedText, processedData,
                      pending, applied, commands, aside>>
       /\ IF scan.i < Len(chunks)
          THEN /\ detectedPII' = processChunk(detectedPII, chunks[scan.i + 1], FALSE)
               /\ scans' = [scans EXCEPT ![k].i = scan.i + 1,
                                       ![k].progress = progressOf(scan.i, Len(chunks))]
               /\ analysed' = NoAnalysis
               /\ toast' = "none"
          ELSE /\ detectedPII' = deduplicateMatches(detectedPII)
               /\ scans' = SubSeq(scans, 1, k - 1) \o SubSeq(scans, k + 1, Len(scans))
               /\ analysed' = [text |-> scan.inputText, path |-> "chunked"]
               /\ toast' = "success: large text analysis complete"

\* the catch of analyzeText: the k-th suspended processLargeText wakes and its
\* next processChunk throws, before its forEach has written anything or, when
\* the category that throws is the last one visited, after the other
\* categories of the chunk were written.  The catch reports the error and
\* leaves this.detectedPII as the throw found it.
analyzeTextCatch(k, written) ==
    LET scan == scans[k]
        chunks == createChunks(scan.inputText)
    IN /\ k \in 1..Len(scans)
       /\ scan.i < Len(chunks)
       /\ UNCHANGED <<inputValue, enabledTypes, processedText, processedData,
                      pending, applied, commands, aside>>
       /\ IF written
          THEN /\ detectedPII' = processChunk(detectedPII, chunks[scan.i + 1], FALSE)
               /\ analysed' = NoAnalysis
          ELSE UNCHANGED <<detectedPII, analysed>>
       /\ scans' = SubSeq(scans, 1, k - 1) \o SubSeq(scans, k + 1, Len(scans))
       /\ toast' = "error: error analyzing text"

\* a toggle that can only switch a type on
togglePIITypeOn(type) ==
    /\ enabledTypes' = enabledTypes \cup {type}
    /\ toast' = "none"
    /\ UNCHANGED <<inputValue, detectedPII, processedText, processedData, scans,
                   pending, analysed, applied, aside, commands>>

\* togglePIIType(type, toggleElement)
togglePIIType(type) ==
    /\ enabledTypes' = IF type \in enabledTypes THEN enabledTypes \ {type}
                       ELSE enabledTypes \cup {type}
    /\ toast' = "none"
    /\ UNCHANGED <<inputValue, detectedPII, processedText, processedData, scans,
                   pending, analysed, applied, aside, commands>>

\* selectAllPIITypes()
selectAllPIITypes ==
    /\ enabledTypes' = AllTypes
    /\ toast' = "success: all types selected"
    /\ UNCHANGED <<inputValue, detectedPII, processedText, processedData, scans,
                   pending, analysed, applied, aside, commands>>

\* unselectAllPIITypes()
unselectAllPIITypes ==
    /\ enabledTypes' = {}
    /\ toast' = "warning: all types unselected"
    /\ UNCHANGED <<inputValue, detectedPII, processedText, processedData, scans,
                   pending, analysed, applied, aside, commands>>

\* Array.from(this.enabledTypes).reduce(... this.detectedPII[type]?.count || 0)
enabledCount(detected, enabled) ==
    sumCounts(SelectSeq(detected, LAMBDA e : e.key \in enabled),
              Len(SelectSeq(detected, LAMBDA e : e.key \in enabled)))

\* what one applyEncryption call reads when it starts
reading(inputText, method, password) ==
    [text |-> inputText, method |-> method, password |-> password,
     detected |-> detectedPII, enabled |-> enabledTypes]

\* the end of a processText call whose applyEncryption read `call`
finishProcess(call, env) ==
    \E done \in {applyEncryption(call.text, call.method, call.password,
                                  call.detected, call.enabled, env)} :
       /\ processedData' = done.processedData
       /\ processedText' = done.processedText
       /\ applied' = call
       /\ toast' = "success: processed"

\* a processText without the two password checks
processTextUnchecked(method, password) ==
    LET inputText == trim(inputValue)
    IN /\ command
       /\ UNCHANGED <<inputValue, detectedPII, enabledTypes, scans, analysed,
                      aside>>
       /\ IF inputText = <<>>
          THEN /\ toast' = "error: no text to process"
               /\ UNCHANGED <<processedText, processedData, pending, applied>>
          ELSE IF Len(detectedPII) = 0
          THEN /\ toast' = "error: no PII detected"
               /\ UNCHANGED <<processedText, processedData, pending, applied>>
          ELSE IF enabledCount(detectedPII, enabledTypes) = 0
          THEN /\ toast' = "warning: no types selected"
               /\ UNCHANGED <<processedText, processedData, pending, applied>>
          ELSE IF method \in {"hash", "encrypt"}
          THEN /\ pending' = Append(pending, reading(inputText, method, password))
               /\ toast' = "none"
               /\ UNCHANGED <<processedText, processedData, applied>>
          ELSE /\ finishProcess(reading(inputText, method, password),
                                [subtle |-> TRUE, random |-> <<>>])
               /\ UNCHANGED pending

\* processText() with the method and password of the form, up to its first
\* suspension: the whole call when a guard returns or the method awaits nothing
\* (mask, redact), the reads of applyEncryption otherwise
processText(method, password) ==
    LET inputText == trim(inputValue)
    IN /\ command
       /\ UNCHANGED <<inputValue, detectedPII, enabledTypes, scans, analysed,
                      aside>>
       /\ IF inputText = <<>>
          THEN /\ toast' = "error: no text to process"
               /\ UNCHANGED <<processedText, processedData, pending, applied>>
          ELSE IF Len(detectedPII) = 0
          THEN /\ toast' = "error: no PII detected"
               /\ UNCHANGED <<processedText, processedData, pending, applied>>
          ELSE IF method = "encrypt" /\ password = <<>>
          THEN /\ toast' = "error: password required"
               /\ UNCHANGED <<processedText, processedData, pending, applied>>
          ELSE IF method = "encrypt" /\ Len(password) < 8
          THEN /\ toast' = "error: password too short"
               /\ UNCHANGED <<processedText, processedData, pending, applied>>
          ELSE IF enabledCount(detectedPII, enabledTypes) = 0
          THEN /\ toast' = "warning: no types selected"
               /\ UNCHANGED <<processedText, processedData, pending, applied>>
          ELSE IF method \in {"hash", "encrypt"}
          THEN /\ pending' = Append(pending, reading(inputText, method, password))
               /\ toast' = "none"
               /\ UNCHANGED <<processedText, processedData, applied>>
          ELSE /\ finishProcess(reading(inputText, method, password),
                                [subtle |-> TRUE, random |-> <<>>])
               /\ UNCHANGED pending

\* the k-th suspended applyEncryption gets the last of its digests or
\* ciphertexts; processText then shows the output
applyEncryptionDone(k, env) ==
    /\ k \in 1..Len(pending)
    /\ finishProcess(pending[k], env)
    /\ pending' = SubSeq(pending, 1, k - 1) \o SubSeq(pending, k + 1, Len(pending))
    /\ UNCHANGED <<inputValue, detectedPII, enabledTypes, scans, analysed, commands,
                   aside>>

\* clearAll()
clearAll ==
    /\ command
    /\ inputValue' = <<>>
    /\ detectedPII' = <<>>
    /\ processedText' = <<>>
    /\ processedData' = <<>>
    /\ enabledTypes' = AllTypes
    /\ toast' = "success: all data cleared"
    /\ analysed' = NoAnalysis
    /\ applied' = NoneApplied
    /\ UNCHANGED <<scans, pending, aside>>

Next ==
    \/ \E d \in InputDocs : EditInput(d)
    \/ analyzeText
    \/ \E k \in 1..Len(scans) : processLargeText(k)
    \/ \E k \in 1..Len(scans), written \in BOOLEAN : analyzeTextCatch(k, written)
    \/ \E type \in ToggleTypes : togglePIIType(type)
    \/ selectAllPIITypes
    \/ unselectAllPIITypes
    \/ \E method \in Methods, password \in Passwords :
          /\ method = "encrypt" \/ password = <<>>
          /\ processText(method, password)
    \/ \E k \in 1..Len(pending), env \in Environments : applyEncryptionDone(k, env)
    \/ clearAll

Spec == Init /\ [][Next]_vars

(***************************************************************************)
(* luhnCheck on its own: one call on a number string.                      *)
(***************************************************************************)
\* number strings short of their last character: 12 to 20 digits in all, bare
\* or with separators and other non-digits between them
LuhnStems ==
    {<<"4","1","1","1","1","1","1","1","1","1","1","1","1","1","1">>,
     <<"3","7","8","2","8","2","2","4","6","3","1","0","0","0">>,
     <<"4","2","2","2","2","2","2","2","2","2","2","2">>,
     <<"3","0","5","6","9","3","0","9","0","2","5","9","0">>,
     <<"6","2","0","0","0","0","0","0","0","0","1","2","3","4","5","6","7","8">>,
     <<"4","1","1","1","1","1","1","1","1","1","1">>,
     <<"4","1","1","1","1","1","1","1","1","1","1","1","1","1","1","1","1","1","1">>,
     <<"4","1","1","1"," ","1","1","1","1"," ","1","1","1","1"," ","1","1","1">>,
     <<"5","5","0","0","-","0","0","0","0","-","0","0","0","0","-","0","0","0">>,
     <<"4","1","1","1"," ","1","1","1","1"," ","1","1","1">>,
     <<"c","a","r","d"," ","4","1","1","1",".","1","1","1","1","/","1","1","1","1"," ","1","1","1">>,
     <<"5","5","0","0","0","0","0","0","0","0","0","0","0","0","0","0">>,
     <<"7","9","9","2","7","3","9","8","7","1","0","0","0","0","0","0","0">>}

\* the number strings luhnCheck is called with: each stem with every last
\* digit, and the 16-digit number with every next-to-last digit
LuhnArguments ==
    {stem \o <<DigitSeq[d]>> : stem \in LuhnStems, d \in 1..10}
    \cup {<<"4","1","1","1","1","1","1","1","1","1","1","1","1","1">> \o <<DigitSeq[d], "1">> : d \in 1..10}

InitLuhn ==
    /\ constructed
    /\ argument \in LuhnArguments

\* the call luhnCheck(argument)
luhnCheckCall ==
    /\ ~returned.done
    /\ returned' = [done |-> TRUE, value |-> luhnCheck(argument)]
    /\ UNCHANGED <<inputValue, detectedPII, enabledTypes, processedText,
                   processedData, scans, pending, toast, analysed, applied,
                   commands, scanTable, argument>>

NextLuhn == luhnCheckCall

SpecLuhn == InitLuhn /\ [][NextLuhn]_vars

(***************************************************************************)
(* The chunker on its own: the chunks loop of processLargeText run on one  *)
(* document.                                                               *)
(***************************************************************************)
\* the longest document the chunker is run on
MaxDocLen == 60

\* one document of every length up to MaxDocLen, its characters varying so
\* that windows at different places differ
ChunkerDocs ==
    {[k \in 1..n |-> LowerSeq[((7 * k) % 26) + 1]] : n \in 0..MaxDocLen}

InitChunker ==
    /\ constructed
    /\ argument \in ChunkerDocs

\* the chunks loop of processLargeText(argument)
createChunksCall ==
    /\ ~returned.done
    /\ returned' = [done |-> TRUE, value |-> createChunks(argument)]
    /\ UNCHANGED <<inputValue, detectedPII, enabledTypes, processedText,
                   processedData, scans, pending, toast, analysed, applied,
                   commands, scanTable, argument>>

NextChunker == createChunksCall

SpecChunker == InitChunker /\ [][NextChunker]_vars

(***************************************************************************)
(* The ssn category on its own: the while loop of processStandardText run  *)
(* with the ssn pattern over one text.                                     *)
(***************************************************************************)
\* the texts the ssn pattern is run on: three digits, two digits and four
\* digits, each pair of groups joined by nothing, '-', '.', a space or a tab
SsnArguments ==
    LET areas == {<<"0","0","0">>, <<"6","6","6">>, <<"9","0","0">>, <<"9","9","9">>,
                  <<"9","5","1">>, <<"2","1","9">>, <<"0","0","1">>, <<"6","6","5">>,
                  <<"6","6","7">>, <<"8","9","9">>, <<"0","9","6">>}
        groups == {<<"0","9">>, <<"0","0">>, <<"1","2">>, <<"9","0">>}
        serials == {<<"1","2","3","4">>, <<"0","0","0","0">>, <<"3","4","5","6">>,
                    <<"0","0","0","1">>}
        separators == {<<>>, <<"-">>, <<".">>, <<" ">>, <<"\t">>}
    IN {area \o first \o group \o second \o serial :
           area \in areas, first \in separators, group \in groups,
           second \in separators, serial \in serials}

\* piiPatterns.ssn
ssn == piiPatterns[CHOOSE j \in 1..Len(piiPatterns) : piiPatterns[j].key = "ssn"]

InitSsn ==
    /\ constructed
    /\ argument \in SsnArguments

\* the matches the ssn category collects over argument
ssnCall ==
    /\ ~returned.done
    /\ returned' = [done |-> TRUE, value |-> collectMatches(ssn, argument)]
    /\ UNCHANGED <<inputValue, detectedPII, enabledTypes, processedText,
                   processedData, scans, pending, toast, analysed, applied,
                   commands, scanTable, argument>>

NextSsn == ssnCall

SpecSsn == InitSsn /\ [][NextSsn]_vars

(***************************************************************************)
(* The detector on its own: the forEach of processStandardText run over    *)
(* one short text.                                                         *)
(***************************************************************************)
\* the texts the detector is run on: a candidate bare, as a key in double
\* quotes, as a value, as a key in single quotes, and as a key with a space
\* before the colon; and four longer texts with two candidates each
ScanArguments ==
    LET bodies == {
                   <<"a","@","b",".","c","c">>,
                   <<"E","m","a","i","l">>,
                   <<"t","i","m","e","s","t","a","m","p">>,
                   <<"R","o","b","e","r","t">>,
                   <<"4","1","1","1","1","1","1","1","1","1","1","1","1","1","1","1">>,
                   <<"4","1","1","1","1","1","1","1","1","1","1","1","1","1","1","2">>,
                   <<"1","2","3","4","5","6","7","8","9">>,
                   <<"D","r"," ","B","o","b"," ","S","m","i","t","h">>,
                   <<"2","1","9","-","0","9","-","1","2","3","4">>,
                   <<"1","2","3","4","5">>,
                   <<"j","o","h","n",".","d","o","e">>,
                   <<"1","0",".","0",".","0",".","1">>,
                   <<"2","0","2","4","-","0","1","-","0","5">>}
        wrapped(x) == {x,
                       <<"\"">> \o x \o <<"\"", ":", " ", "1">>,
                       <<"\"", "k", "\"", ":", " ", "\"">> \o x \o <<"\"">>,
                       <<"'">> \o x \o <<"'", ":", " ", "1">>,
                       <<"\"">> \o x \o <<"\"", " ", ":", " ", "1">>}
        longer == {
                   <<"4","2","2","2","2","2","2","2","2","2","2","2","3",",","4","2","2","2","2","2","2","2","2","2","2","2","2">>,
                   <<"A","B","C","D","E","1","2","3","4","5"," ","P","O"," ","B","o","x"," ","1","2","3">>,
                   <<"P","O"," ","B","o","x"," ","1","2","3"," ","O","R","D","-","1","2","3","4">>,
                   <<"D","r"," ","B","o","b"," ","S","m","i","t","h"," ","1","2","3","4","5","6","7","8","9">>}
    IN longer \cup UNION {wrapped(x) : x \in bodies}

\* sortedPatterns.forEach of processStandardText(argument): the categories
\* with matches, in the order they were scanned
scanTextCall ==
    /\ ~returned.done
    /\ returned' = [done |-> TRUE, value |-> scanText(argument)]
    /\ UNCHANGED <<inputValue, detectedPII, enabledTypes, processedText,
                   processedData, scans, pending, toast, analysed, applied,
                   commands, scanTable, argument>>

InitScan ==
    /\ constructed
    /\ argument \in ScanArguments

SpecScan == InitScan /\ [][scanTextCall]_vars

(***************************************************************************)
(* The claims.                                                             *)
(***************************************************************************)
\* every match of a DetectionResult as <<category, match>>
tripleSet(detected) ==
    UNION {{<<detected[j].key, detected[j].matches[k]>> :
                k \in 1..Len(detected[j].matches)} : j \in 1..Len(detected)}

\* how often category key holds match in a DetectionResult
tripleCount(detected, key, match) ==
    IF hasKey(detected, key)
    THEN Cardinality({k \in 1..Len(detected[keyIndex(detected, key)].matches) :
                         detected[keyIndex(detected, key)].matches[k] = match})
    ELSE 0

\* two DetectionResults hold the same multiset of (category, startOffset, text)
sameTriples(a, b) ==
    \A t \in tripleSet(a) \cup tripleSet(b) :
        tripleCount(a, t[1], t[2]) = tripleCount(b, t[1], t[2])

\* C1: when a chunked analysis of a document completes, deduplication included,
\* detectedPII holds the same multiset of (category, startOffset, text) triples
\* as a single-pass scan of the whole document
C1_ChunkedEqualsSinglePass ==
    analysed.path = "chunked"
        => sameTriples(detectedPII, processStandardText(<<>>, analysed.text))

\* m.text is what the document holds from m.index on
pointsAtText(document, m) ==
    substring(document, m.index, m.index + Len(m.text)) = m.text

\* C2: when an analysis of document D completes, single-pass or chunked, every
\* match m of the DetectionResult has D.substring(m.index, m.index +
\* m.text.length) equal to m.text
C2_OffsetsPointAtText ==
    analysed.path # "none"
        => \A t \in tripleSet(detectedPII) : pointsAtText(analysed.text, t[2])

\* C3: whenever applyEncryption has spliced stored matches into a document, each
\* of them had doc.substring(m.index, m.index + m.text.length) equal to m.text:
\* the stored DetectionResult is only applied to the document it was detected in
C3_SplicedMatchesFitDocument ==
    applied.method # "none"
        => \A k \in 1..Len(allMatches(applied.detected, applied.enabled)) :
              pointsAtText(applied.text,
                           allMatches(applied.detected, applied.enabled)[k])

\* position p (1-based) of the document lies in an enabled match
covered(call, p) ==
    \E k \in 1..Len(allMatches(call.detected, call.enabled)) :
        LET m == allMatches(call.detected, call.enabled)[k]
        IN m.index < p /\ p <= m.index + Len(m.text)

\* C4: after processing with mask the output has the length of the document,
\* holds "*" at every position an enabled match covers and the document's
\* character at every other position, overlapping matches included
C4_MaskKeepsShape ==
    applied.method = "mask"
        => /\ Len(processedText) = Len(applied.text)
           /\ \A p \in 1..Len(applied.text) :
                 processedText[p] = IF covered(applied, p) THEN "*" ELSE applied.text[p]

\* the email address of the example and where "Contact john.doe@email.com now"
\* holds it
JohnDoe ==
    [text |-> <<"j","o","h","n",".","d","o","e","@","e","m","a","i","l",".","c","o","m">>,
     index |-> 8]

\* the matches of the email category in a DetectionResult
emailMatches(detected) ==
    IF hasKey(detected, "email") THEN detected[keyIndex(detected, "email")].matches
    ELSE <<>>

\* the example has been analysed, or masked with the email match alone enabled
exampleAnalysed == analysed = [text |-> DocContact, path |-> "standard"]
exampleMasked ==
    /\ applied.method = "mask"
    /\ applied.text = DocContact
    /\ allMatches(applied.detected, applied.enabled) = <<JohnDoe>>

\* "Contact " + n asterisks + " now"
contactNow(n) ==
    <<"C","o","n","t","a","c","t"," ">> \o [k \in 1..n |-> "*"] \o <<" ","n","o","w">>

\* C5 (as amended): for the input "Contact john.doe@email.com now" detection
\* yields exactly one email match, "john.doe@email.com" at offset 8, and masking
\* that match gives "Contact ****************** now": 18 asterisks, the length
\* of the match text
C5_EmailExampleMasked ==
    /\ exampleAnalysed => emailMatches(detectedPII) = <<JohnDoe>>
    /\ exampleMasked => processedText = contactNow(Len(JohnDoe.text))
    /\ Len(JohnDoe.text) = 18

\* C5 (as the spec writes it): ... and masking that match gives
\* "Contact ******************* now", with 19 asterisks
C5_EmailExampleAsWritten ==
    /\ exampleAnalysed => emailMatches(detectedPII) = <<JohnDoe>>
    /\ exampleMasked => processedText = contactNow(19)

\* the example has been analysed and its email match masked
C5_EmailExampleReached ==
    /\ exampleMasked
    /\ emailMatches(applied.detected) = <<JohnDoe>>
    /\ processedData.processedCount = 1

\* the placeholder of method redact
Redacted == <<"[","R","E","D","A","C","T","E","D","]">>

\* the matches a DetectionResult holds in the categories keys, each as its
\* position <<entry, place>> in the result
occurrences(detected, keys) ==
    UNION {{<<j, k>> : k \in 1..Len(detected[j].matches)} :
              j \in {i \in 1..Len(detected) : detected[i].key \in keys}}

matchAt(detected, o) == detected[o[1]].matches[o[2]]

\* the matches lie inside the document and no two of them overlap
apart(detected, chosen, document) ==
    /\ \A o \in chosen :
          matchAt(detected, o).index + Len(matchAt(detected, o).text) <= Len(document)
    /\ \A o, q \in chosen :
          o # q => \/ matchAt(detected, o).index + Len(matchAt(detected, o).text)
                         <= matchAt(detected, q).index
                   \/ matchAt(detected, q).index + Len(matchAt(detected, q).text)
                         <= matchAt(detected, o).index

RECURSIVE growth(_, _)
\* by how much replacing the matches of chosen by the placeholder lengthens a text
growth(detected, chosen) ==
    IF chosen = {} THEN 0
    ELSE LET o == CHOOSE q \in chosen : TRUE
         IN Len(Redacted) - Len(matchAt(detected, o).text)
            + growth(detected, chosen \ {o})

PolicyErrors == {"error: password required", "error: password too short"}

\* C7: a processText call with method encrypt and a password that is empty or
\* shorter than 8 characters ends in an error before applyEncryption is called:
\* the textarea, detectedPII, processedText and processedData keep their
\* values, no applyEncryption call is started or finished, and the error is
\* the password error whenever there is a text and a DetectionResult to process
C7_ShortPasswordRejected ==
    [][\A password \in Passwords :
          (Len(password) < 8 /\ processText("encrypt", password)) =>
              /\ UNCHANGED <<inputValue, detectedPII, processedText, processedData,
                             pending, applied>>
              /\ toast' \in PolicyErrors \cup {"error: no text to process",
                                               "error: no PII detected"}
              /\ (trim(inputValue) # <<>> /\ Len(detectedPII) > 0)
                    => toast' \in PolicyErrors]_vars

\* processText has just refused a short password for a text with detections
C7_ShortPasswordSeen ==
    /\ toast = "error: password too short"
    /\ trim(inputValue) # <<>>
    /\ Len(detectedPII) > 0
    /\ pending = <<>>

\* the Luhn formula as it is usually given: strip what is not a digit; going
\* from the rightmost digit to the left, every second digit is doubled and the
\* digits of the product are added; the number is valid when the total ends in
\* 0.  Numbers of fewer than 13 or more than 19 digits are refused.
referenceLuhn(numberStr) ==
    LET kept == SelectSeq(numberStr, LAMBDA c : c \in Digit)
        n == Len(kept)
        value(r) == CHOOSE v \in 0..9 : DigitSeq[v + 1] = kept[n - r + 1]
        part(r) == IF r % 2 = 0
                   THEN ((2 * value(r)) \div 10) + ((2 * value(r)) % 10)
                   ELSE value(r)
        RECURSIVE total(_)
        total(r) == IF r = 0 THEN 0 ELSE part(r) + total(r - 1)
    IN n \in 13..19 /\ total(n) % 10 = 0

Visa16 == <<"4","1","1","1","1","1","1","1","1","1","1","1","1","1","1">>

\* C8: luhnCheck returns what the reference Luhn definition gives, on every
\* number string: false for fewer than 13 or more than 19 digits after
\* stripping, else whether the checksum is divisible by 10; so
\* "4111111111111111" is valid and "4111111111111112" is not
C8_LuhnAgreesWithReference ==
    returned.done =>
        /\ returned.value = referenceLuhn(argument)
        /\ argument = Visa16 \o <<"1">> => returned.value = TRUE
        /\ argument = Visa16 \o <<"2">> => returned.value = FALSE

\* luhnCheck has accepted a number with separators whose doubled digits
\* include one above 9
C8_LuhnAcceptedFormatted ==
    /\ returned.done
    /\ returned.value = TRUE
    /\ \E k \in 1..Len(argument) : argument[k] \notin Digit
    /\ \E k \in 1..Len(argument) : argument[k] \in {"5", "6", "7", "8", "9"}

RECURSIVE firstOccurrences(_, _)
\* of the first k matches, those no earlier match equals in index and text
firstOccurrences(matches, k) ==
    IF k = 0 THEN <<>>
    ELSE firstOccurrences(matches, k - 1)
         \o (IF \E i \in 1..(k - 1) : /\ matches[i].index = matches[k].index
                                      /\ matches[i].text = matches[k].text
             THEN <<>> ELSE <<matches[k]>>)

\* after is before with, in each category, only the first occurrence of each
\* (index, text) kept
deduplicated(before, after) ==
    /\ Len(after) = Len(before)
    /\ \A j \in 1..Len(before) :
          /\ after[j].key = before[j].key
          /\ after[j].matches = firstOccurrences(before[j].matches,
                                                 Len(before[j].matches))
          /\ after[j].count = Len(after[j].matches)
          /\ \A a, b \in 1..Len(after[j].matches) :
                a # b => \/ after[j].matches[a].index # after[j].matches[b].index
                         \/ after[j].matches[a].text # after[j].matches[b].text
          /\ \A k \in 1..Len(before[j].matches) :
                \E a \in 1..Len(after[j].matches) :
                    after[j].matches[a] = before[j].matches[k]

RECURSIVE accumulate(_, _)
\* detectedPII after the first j chunks of one undisturbed chunked scan
accumulate(chunks, j) ==
    IF j = 0 THEN <<>>
    ELSE processChunk(accumulate(chunks, j - 1), chunks[j], j = 1)

\* C9: deduplicateMatches identifies a match by (startOffset, text): in each
\* category of its result no two matches share both, the matches are the first
\* occurrences in their original order, every distinct (startOffset, text) is
\* still there, count is the number of matches, and a second run changes
\* nothing.  This holds of every detectedPII the program can hold, and of the
\* result a chunked analysis ends with.
C9_DedupKeepsFirstOccurrences ==
    /\ deduplicated(detectedPII, deduplicateMatches(detectedPII))
    /\ deduplicateMatches(deduplicateMatches(detectedPII))
          = deduplicateMatches(detectedPII)
    /\ analysed.path = "chunked" => deduplicated(detectedPII, detectedPII)

\* a chunked analysis has ended, and deduplicateMatches removed the second
\* copy of a match that two overlapping chunks had both found
C9_DuplicatesRemoved ==
    LET chunks == createChunks(analysed.text)
        raw == accumulate(chunks, Len(chunks))
    IN /\ analysed.path = "chunked"
       /\ deduplicated(raw, detectedPII)
       /\ \E j \in 1..Len(raw) : detectedPII[j].count < raw[j].count

\* every applyEncryption call the state knows: those suspended and the one whose
\* output is shown
calls == {pending[k] : k \in 1..Len(pending)}
         \cup (IF applied.method = "none" THEN {} ELSE {applied})

\* C10: whatever the interleaving of analyzeText and processText, the
\* detectedPII an applyEncryption call reads has been deduplicated: none of its
\* categories holds the same (startOffset, text) twice, so no match of an
\* overlap region is counted or replaced twice
C10_TransformerReadsDeduplicated ==
    \A call \in calls : deduplicated(call.detected, call.detected)

\* what one undisturbed chunked scan of a document accumulates, chunk by chunk
ownMatches(document) ==
    accumulate(createChunks(document), Len(createChunks(document)))

\* C11: the DetectionResult a chunked scan finishes with holds only matches
\* that this scan accumulated from the chunks of its own document, whatever
\* other analyzeText call ran while it was suspended between chunks
C11_ResultHoldsOwnMatchesOnly ==
    analysed.path = "chunked"
        => tripleSet(detectedPII) \subseteq tripleSet(ownMatches(analysed.text))

\* C12: in every reachable state (after a single pass, after each chunk of a
\* chunked scan, after deduplication) every category entry of detectedPII has
\* count = length(matches)
C12_CountIsNumberOfMatches ==
    \A j \in 1..Len(detectedPII) :
        detectedPII[j].count = Len(detectedPII[j].matches)

\* a chunked scan is suspended after its second chunk or a later one, with a
\* category that holds matches pushed by more than one chunk
C12_CountedOverChunks ==
    \E k \in 1..Len(scans) :
        /\ scans[k].i >= 2
        /\ \E j \in 1..Len(detectedPII) :
              /\ detectedPII[j].count >= 2
              /\ hasKey(processChunk(<<>>, createChunks(scans[k].inputText)[1], TRUE),
                        detectedPII[j].key)

\* the window of a chunk holds the span [s, s + L) of the document
holdsSpan(chunk, s, L) ==
    chunk.offset <= s /\ s + L <= chunk.offset + Len(chunk.text)

\* C13: for every document and every non-empty span [s, s + L) of it that is
\* shorter than the overlap, at least one chunk's window [offset, offset +
\* length(chunk.text)) holds the whole span
C13_ShortSpanInOneWindow ==
    returned.done =>
        \A s \in 0..Len(argument), L \in 1..(overlap - 1) :
            s + L <= Len(argument) =>
                \E j \in 1..Len(returned.value) : holdsSpan(returned.value[j], s, L)

\* a document has been cut into three or more chunks, and a span shorter than
\* the overlap reaches over the end of the first window
C13_SpanOverWindowEnd ==
    /\ returned.done
    /\ Len(returned.value) >= 3
    /\ \E s \in 0..Len(argument) :
          /\ s + (overlap - 1) <= Len(argument)
          /\ ~holdsSpan(returned.value[1], s, overlap - 1)
          /\ s < returned.value[1].offset + Len(returned.value[1].text)
          /\ holdsSpan(returned.value[2], s, overlap - 1)

\* C14: the chunks of a document D start at 0, step, 2*step, ... (step =
\* chunkSize - overlap), one for every multiple of step below length(D), in
\* ascending order; each chunk's text is D.slice(offset, min(offset +
\* chunkSize, length(D))); the last window ends at the end of D, and every
\* position of D lies in some window
C14_ChunksAtMultiplesOfStep ==
    returned.done =>
        LET chunks == returned.value
            n == Len(argument)
            step == chunkSize - overlap
        IN /\ Len(chunks) = Cardinality({m \in 0..n : m % step = 0 /\ m < n})
           /\ \A j \in 1..Len(chunks) :
                 /\ chunks[j].offset = (j - 1) * step
                 /\ chunks[j].text
                       = SubSeq(argument, chunks[j].offset + 1,
                                IF chunks[j].offset + chunkSize < n
                                THEN chunks[j].offset + chunkSize ELSE n)
           /\ n > 0 => chunks[Len(chunks)].offset + Len(chunks[Len(chunks)].text) = n
           /\ \A p \in 0..(n - 1) :
                 \E j \in 1..Len(chunks) : holdsSpan(chunks[j], p, 1)

\* a document has been cut into several full windows and a last, shorter one
C14_LastWindowShorter ==
    /\ returned.done
    /\ Len(returned.value) >= 3
    /\ Len(returned.value[1].text) = chunkSize
    /\ Len(returned.value[Len(returned.value)].text) < chunkSize - overlap

\* the toasts of the empty-input checks of analyzeText and processText
EmptyInputErrors == {"error: enter text to analyze", "error: no text to process"}

\* C15: an analyzeText or processText call on a textarea that is empty or
\* holds white space only ends in an error and does nothing else: no scan is
\* made or started, no applyEncryption call is started or finished, and
\* detectedPII, enabledTypes, processedText and processedData keep their values
C15_EmptyInputRejected ==
    [][(/\ trim(inputValue) = <<>>
        /\ \/ analyzeText
           \/ \E method \in Methods, password \in Passwords :
                 processText(method, password))
          => /\ UNCHANGED <<inputValue, detectedPII, enabledTypes, processedText,
                            processedData, scans, pending, analysed, applied>>
             /\ toast' \in EmptyInputErrors]_vars

\* analyzeText has just refused a textarea of white space, with the result of
\* an earlier analysis in detectedPII
C15_BlankInputSeen ==
    /\ toast = "error: enter text to analyze"
    /\ inputValue = DocBlank
    /\ Len(detectedPII) > 0

\* C16: when processText finds no match in the enabled categories it warns and
\* goes on as a no-op: the output text is the input document, with nothing
\* replaced
C16_NothingEnabledIsNoOp ==
    toast = "warning: no types selected" => processedText = trim(inputValue)

\* an environment whose crypto.subtle calls fail
Degraded == [subtle |-> FALSE, random |-> <<>>]

\* text holds the sequence tag somewhere
holdsTag(text, tag) ==
    \E p \in 0..(Len(text) - Len(tag)) : SubSeq(text, p + 1, p + Len(tag)) = tag

\* the tags that open the tokens of the secure hash and of the secure encryption
SecureTags == {<<"[","H","A","S","H",":">>, <<"[","E","N","C",":">>}

\* C17: when crypto.subtle is unavailable, the tokens that hash and encrypt
\* place in the text are marked as degraded: none of them has the form of a
\* secure token ("[HASH:...]", "[ENC:...]")
C17_DegradedTokensAreMarked ==
    [][\A k \in 1..Len(pending) :
          applyEncryptionDone(k, Degraded)
              => \A tag \in SecureTags : ~holdsTag(processedText', tag)]_vars

\* the digits of text, in order
digitsOf(text) == SelectSeq(text, LAMBDA c : c \in Digit)

\* an SSN-shaped text whose first group is 000, 666 or 9xx, whose middle group
\* is 00 or whose last group is 0000
invalidSsn(text) ==
    LET digits == digitsOf(text)
    IN \/ SubSeq(digits, 1, 3) \in {<<"0","0","0">>, <<"6","6","6">>}
       \/ digits[1] = "9"
       \/ SubSeq(digits, 4, 5) = <<"0","0">>
       \/ SubSeq(digits, 6, 9) = <<"0","0","0","0">>

Ssn219 == <<"2","1","9","-","0","9","-","1","2","3","4">>

\* C18: the ssn category finds "219-09-1234" as one match, and finds nothing in
\* an SSN-shaped text (three, two and four digits, each pair of groups joined
\* by nothing, '-', '.' or white space) whose first group is 000, 666 or 9xx,
\* whose middle group is 00 or whose last group is 0000
C18_SsnInvalidGroupsRejected ==
    returned.done
        => /\ argument = Ssn219 => returned.value = <<[text |-> Ssn219, index |-> 0]>>
           /\ invalidSsn(argument) => returned.value = <<>>

\* a text with first group 9xx and white space between the groups has been
\* scanned and rejected
C18_NineAreaRejected ==
    /\ returned.done
    /\ Head(argument) = "9"
    /\ \E c \in WhiteSpace : argument[4] = c
    /\ returned.value = <<>>

\* "[HASH:" + the first 16 hexadecimal digits of SHA-256(text) + "]"
hashToken(text) ==
    <<"[", "H", "A", "S", "H", ":">> \o SubSeq(sha256Hex16(text), 1, 16) \o <<"]">>

RECURSIVE tokensSpliced(_, _, _)
\* text after each of the first j matches has been replaced by the token of
\* its text
tokensSpliced(text, matches, j) ==
    IF j = 0 THEN text
    ELSE splice(tokensSpliced(text, matches, j - 1), matches[j],
                hashToken(matches[j].text))

C20_AbortedScanLeavesNothing ==
    [][\A k \in 1..Len(scans), written \in BOOLEAN :
          analyzeTextCatch(k, written)
              => tripleSet(detectedPII') \cap tripleSet(ownMatches(scans[k].inputText))
                     = {}]_vars

\* C21: a chunked analysis scans one chunk per step, in order, and reports
\* its progress once with each chunk: the percentage is an integer in 0..100,
\* never below the one reported before, and 100 with the last chunk;
\* the result is deduplicated and shown only by the step after the last chunk
C21_ChunksInSequenceWithProgress ==
    [][/\ \A k \in 1..Len(scans') :
             LET count == Len(createChunks(scans'[k].inputText))
             IN /\ scans'[k].progress \in 0..100
                /\ scans'[k].i \in 1..count
                /\ (scans'[k].i = count) => scans'[k].progress = 100
       /\ \A k \in 1..Len(scans) :
             LET scan == scans[k]
                 count == Len(createChunks(scan.inputText))
             IN processLargeText(k)
                    => IF scan.i < count
                       THEN /\ scans'[k].i = scan.i + 1
                            /\ scans'[k].progress >= scan.progress
                            /\ analysed'.path # "chunked"
                            /\ toast' = "none"
                       ELSE /\ Len(scans') = Len(scans) - 1
                            /\ detectedPII' = deduplicateMatches(detectedPII)
                            /\ analysed' = [text |-> scan.inputText, path |-> "chunked"]]_vars

\* a chunked analysis has reported 100 with its last chunk, after a smaller
\* percentage, and has not deduplicated yet
C21_LastChunkReported ==
    \E k \in 1..Len(scans) :
        /\ scans[k].i = Len(createChunks(scans[k].inputText))
        /\ scans[k].i >= 3
        /\ scans[k].progress = 100
        /\ analysed.path = "none"

\* before ends with a quote and after starts with quote-then-colon
quoteColon(before, after) ==
    /\ before # <<>> /\ before[Len(before)] = "\""
    /\ Len(after) >= 2 /\ after[1] = "\"" /\ after[2] = ":"

\* every candidate regex.exec reports for a category over text, with the
\* context the filters are handed
candidates(text) ==
    UNION {{[key |-> piiPatterns[j].key, text |-> m.text, index |-> m.index,
             before |-> substring(text, Max(0, m.index - 10), m.index),
             after |-> substring(text, m.index + Len(m.text),
                                 m.index + Len(m.text) + 10)] :
               m \in {execFrom(piiPatterns[j], text, 0)[n] :
                         n \in 1..Len(execFrom(piiPatterns[j], text, 0))}} :
           j \in 1..Len(piiPatterns)}

\* C22: the structural-noise filter discards a candidate only when it stands
\* between a quote and quote-then-colon AND its case-folded text is one of the
\* structural field names: a candidate in that context that is not in the
\* list is kept
C22_FilterNeedsContextAndListedName ==
    returned.done
        => \A c \in candidates(argument) :
              isJsonStructure(c.before, c.text, c.after)
                  <=> /\ quoteColon(c.before, c.after)
                      /\ toLowerCase(c.text) \in jsonStructureWords

\* the matches of a call lie inside its document and no two of them share a
\* character or a start
apartInside(call) ==
    LET matches == allMatches(call.detected, call.enabled)
    IN /\ \A k \in 1..Len(matches) :
             matches[k].index + Len(matches[k].text) <= Len(call.text)
       /\ \A k, n \in 1..Len(matches) :
             k # n => \/ matches[k].index + Len(matches[k].text) <= matches[n].index
                      \/ matches[n].index + Len(matches[n].text) <= matches[k].index

RECURSIVE rebuiltFrom(_, _, _, _)
\* the document of call from offset p on, read left to right: the replacement
\* in place of each span of matches, every other character as it is
rebuiltFrom(call, matches, env, p) ==
    LET here == {k \in 1..Len(matches) : matches[k].index = p}
    IN IF p >= Len(call.text) THEN <<>>
       ELSE IF here # {}
       THEN LET match == matches[CHOOSE k \in here : TRUE]
            IN replacement(call.method, match, call.password, env)
               \o rebuiltFrom(call, matches, env, p + Len(match.text))
       ELSE <<call.text[p + 1]>> \o rebuiltFrom(call, matches, env, p + 1)

\* the document of call with each span of its enabled matches replaced
rebuilt(call, env) ==
    withValue(allMatches(call.detected, call.enabled),
              LAMBDA matches : rebuiltFrom(call, matches, env, 0))

\* C23: when the enabled matches are pairwise non-overlapping, the text that
\* applyEncryption returns is, for every method, the document with each span
\* [startOffset, endOffset) replaced by the replacement of its match and every
\* character outside the spans unchanged and in its place
C23_SplicingKeepsOffsetsValid ==
    [][/\ \A k \in 1..Len(pending), env \in Environments :
             (applyEncryptionDone(k, env) /\ apartInside(pending[k]))
                 => processedText' = rebuilt(pending[k], env)
       /\ \A method \in {"mask", "redact"} :
             LET call == reading(trim(inputValue), method, <<>>)
             IN (/\ processText(method, <<>>)
                 /\ toast' = "success: processed"
                 /\ apartInside(call))
                    => processedText' = rebuilt(call, Degraded)]_vars

\* two or more spans, none overlapping, have been replaced by tokens longer
\* than they were
C23_TwoSpansReplaced ==
    /\ applied.method \in {"redact", "hash"}
    /\ toast = "success: processed"
    /\ apartInside(applied)
    /\ Len(allMatches(applied.detected, applied.enabled)) >= 2
    /\ Len(processedText) > Len(applied.text)

\* the span of outer holds the span of inner and is longer
contains(outer, inner) ==
    /\ outer.index <= inner.index
    /\ inner.index + Len(inner.text) <= outer.index + Len(outer.text)
    /\ Len(inner.text) < Len(outer.text)

\* C24: when applyEncryption has spliced matches that all point at their text
\* in the document, a match whose span contains the span of another was
\* spliced before it, and each splice replaced exactly the characters its
\* match covers in the original document
C24_OuterSplicedBeforeInner ==
    (applied.method # "none" /\ C3_SplicedMatchesFitDocument)
        => LET matches == allMatches(applied.detected, applied.enabled)
           IN /\ \A a, b \in 1..Len(matches) :
                    contains(matches[a], matches[b]) => a < b
              /\ \A j \in 1..Len(matches), env \in Environments :
                    LET current == spliceLoop(applied.text, matches, j - 1,
                                              applied.method, applied.password, env)
                        start == matches[j].index
                        end == start + Len(matches[j].text)
                    IN slice(current, start, end) = slice(applied.text, start, end)

\* each match of the list starts at or after the end of the one before it
ascendingApart(matches) ==
    \A k \in 1..(Len(matches) - 1) :
        matches[k].index + Len(matches[k].text) <= matches[k + 1].index

\* C25: in the DetectionResult of a completed analysis (a single pass, or a
\* chunked scan after deduplication) the matches of each category are listed
\* in strictly ascending startOffset and do not overlap
C25_CategoryMatchesAscendingApart ==
    analysed.path # "none"
        => \A j \in 1..Len(detectedPII) : ascendingApart(detectedPII[j].matches)

\* the creditCard matches of a scan result, as a set
cardsOf(found) ==
    UNION {{found[j].matches[n] : n \in 1..Len(found[j].matches)} :
              j \in {j \in 1..Len(found) : found[j].key = "creditCard"}}

\* the creditCard candidates of text that no other filter discards
cardCandidates(text) ==
    {[text |-> c.text, index |-> c.index] :
        c \in {c \in candidates(text) :
                  c.key = "creditCard" /\ ~quoteColon(c.before, c.after)}}

\* C26: every creditCard match a scan stores passes the Luhn checksum; a
\* candidate that fails it is dropped without an error and the scan goes on
\* to the next candidate, so the stored matches are exactly the candidates
\* that pass
C26_StoredCardsPassLuhn ==
    returned.done
        => cardsOf(returned.value)
               = {c \in cardCandidates(argument) : referenceLuhn(c.text)}

\* a scan has dropped a number that fails the checksum and stored the number
\* that follows it
C26_FailedCardSkipped ==
    /\ returned.done
    /\ \E c \in cardCandidates(argument) : ~referenceLuhn(c.text)
    /\ \E c \in cardsOf(returned.value) : c.index > 0

\* the place of a category in the declaration of piiPatterns, and its priority
declared(key) == keyIndex(piiPatterns, key)
priorityOf(key) == piiPatterns[declared(key)].priority

\* category a comes before category b by ascending priority, declaration
\* order deciding between equal priorities
scannedBefore(a, b) ==
    \/ priorityOf(a) < priorityOf(b)
    \/ priorityOf(a) = priorityOf(b) /\ declared(a) < declared(b)

\* C27: a scan visits the categories in ascending priority, ties broken by
\* declaration order: the categories it found matches for are stored in that
\* order (firstName before name, accountNumber before routingNumber,
\* trackingNumber before poBox and both before orderID)
C27_ScannedByPriorityThenDeclaration ==
    returned.done
        => \A j, k \in 1..Len(returned.value) :
              j < k => scannedBefore(returned.value[j].key, returned.value[k].key)

\* a scan has stored two categories of equal priority, and a category declared
\* later before one declared earlier
C27_TieAndInversionScanned ==
    /\ returned.done
    /\ \E j, k \in 1..Len(returned.value) :
          /\ j < k
          /\ priorityOf(returned.value[j].key) = priorityOf(returned.value[k].key)
    /\ \E j, k \in 1..Len(returned.value) :
          /\ j < k
          /\ declared(returned.value[j].key) > declared(returned.value[k].key)

flipped(S, type) == IF type \in S THEN S \ {type} ELSE S \cup {type}

\* C29: enabledTypes is always a set of category ids of piiPatterns;
\* togglePIIType flips the membership of the given id and of no other (a
\* second toggle gives the set back), selectAllPIITypes makes it the full set,
\* unselectAllPIITypes makes it empty, and the three leave detectedPII,
\* processedText and processedData as they are
C29_EnabledTypesWithinRegistry ==
    [][/\ enabledTypes \subseteq AllTypes
       /\ enabledTypes' \subseteq AllTypes
       /\ \A type \in ToggleTypes :
             togglePIIType(type)
                 => /\ enabledTypes' = flipped(enabledTypes, type)
                    /\ flipped(enabledTypes', type) = enabledTypes
                    /\ UNCHANGED <<detectedPII, processedText, processedData>>
       /\ selectAllPIITypes
             => /\ enabledTypes' = AllTypes
                /\ UNCHANGED <<detectedPII, processedText, processedData>>
       /\ unselectAllPIITypes
             => /\ enabledTypes' = {}
                /\ UNCHANGED <<detectedPII, processedText, processedData>>]_vars

\* one type has been switched on after all were switched off, next to a
\* detection result and a processed text
C29_OneTypeToggledOn ==
    /\ enabledTypes = {"email"}
    /\ toast = "none"
    /\ detectedPII # <<>>
    /\ processedText # <<>>

\* C30: clearAll empties detectedPII, processedText and processedData and
\* enables every category again, and the cleared state lasts until the next
\* analyzeText: when clearAll has just run while a chunked analysis is
\* suspended between two chunks, no later step of that analysis puts a match
\* into detectedPII or displays results.
C30_ClearedStatePersists ==
    [][/\ clearAll
          => /\ detectedPII' = <<>>
             /\ processedText' = <<>>
             /\ processedData' = <<>>
             /\ enabledTypes' = AllTypes
       /\ \A k \in 1..Len(scans) :
             /\ toast = "success: all data cleared"
             /\ detectedPII = <<>>
             /\ processLargeText(k)
             => /\ detectedPII' = <<>>
                /\ analysed' = NoAnalysis]_vars

====
